---- MODULE Spec2Model ----
(***************************************************************************)
(* A model of the planar incremental-construction engine of                *)
(* src/src/components/GraphCanvas.jsx: periphery detection, segment        *)
(* validation, placement search, insertion with interior repair,           *)
(* re-layout, greedy colouring, and the handlers that drive them.          *)
(*                                                                         *)
(* Numbers.  The source computes positions in IEEE doubles.  Here a        *)
(* coordinate is an integer number of tenths of a pixel (Px), products and *)
(* comparisons of coordinates are exact, and the three places where the    *)
(* source leaves the rationals (Math.sqrt, Math.hypot, Math.atan2) are     *)
(* computed as follows: a square root is rounded to the nearest tenth of a *)
(* pixel, a comparison of a hypot against a constant is made on the        *)
(* squares, and two atan2 angles are compared exactly by half-plane and    *)
(* cross product.  A vertex index is 0-based as in the source; the         *)
(* sequences that hold vertices are 1-based, so vertex i is vertices[i+1]. *)
(***************************************************************************)
EXTENDS Integers, Sequences, FiniteSets, TLC

(***************************************************************************)
(* Values                                                                  *)
(***************************************************************************)

\* JavaScript null (a vertex without color, a missing previous vertex).
Null == -1

\* n pixels in the fixed-point unit of the model.
Px(n) == 10 * n

Pt(x, y) == [x |-> x, y |-> y]

Abs(n) == IF n < 0 THEN 0 - n ELSE n

Min(a, b) == IF a < b THEN a ELSE b

Max(a, b) == IF a > b THEN a ELSE b

\* a / b rounded to the nearest integer, b > 0.
RoundDiv(a, b) == IF a >= 0 THEN (2 * a + b) \div (2 * b) ELSE 0 - ((2 * (0 - a) + b) \div (2 * b))

RECURSIVE SqrtSearch(_, _, _)
SqrtSearch(n, lo, hi) ==
  IF lo >= hi THEN lo
  ELSE LET mid == (lo + hi + 1) \div 2
       IN  IF mid * mid <= n THEN SqrtSearch(n, mid, hi) ELSE SqrtSearch(n, lo, mid - 1)

\* Math.sqrt, rounded to the nearest integer.
Sqrt(n) ==
  LET r == SqrtSearch(n, 0, 40000)
  IN  IF n - r * r > r THEN r + 1 ELSE r

\* Math.hypot(dx, dy).
Hypot(dx, dy) == Sqrt(dx * dx + dy * dy)

\* Math.hypot(p.x - q.x, p.y - q.y) < d, decided on the squares.
CloserThan(p, q, d) ==
  (p.x - q.x) * (p.x - q.x) + (p.y - q.y) * (p.y - q.y) < d * d

\* The vertex at 0-based index i.
At(vertices, i) == vertices[i + 1]

Indices(vertices) == 0 .. (Len(vertices) - 1)

\* arr.includes(x)
Includes(arr, x) == \E k \in 1 .. Len(arr) : arr[k] = x

\* An edge as an unordered pair: the key a < b ? `a-b` : `b-a` of the source.
Key(e) == IF e[1] < e[2] THEN <<e[1], e[2]>> ELSE <<e[2], e[1]>>

EdgeSet(edges) == { Key(edges[k]) : k \in 1 .. Len(edges) }

\* edges.some(([x, y]) => (x === a && y === b) || (x === b && y === a))
HasEdge(edges, a, b) ==
  \E k \in 1 .. Len(edges) :
    \/ edges[k][1] = a /\ edges[k][2] = b
    \/ edges[k][1] = b /\ edges[k][2] = a

(***************************************************************************)
(* Geometry primitives                                                     *)
(***************************************************************************)

ccw(a, b, c) == (c.y - a.y) * (b.x - a.x) > (b.y - a.y) * (c.x - a.x)

doLinesIntersect(p1, p2, q1, q2) ==
  /\ ccw(p1, q1, q2) # ccw(p2, q1, q2)
  /\ ccw(p1, p2, q1) # ccw(p1, p2, q2)

\* Twice the area of the triangle p1 p2 p3.
area2(p1, p2, p3) ==
  Abs(p1.x * (p2.y - p3.y) + p2.x * (p3.y - p1.y) + p3.x * (p1.y - p2.y))

\* |A - (A1 + A2 + A3)| < 0.01 square pixels, on doubled areas in square units:
\* a hundredth of two square pixels.
isPointInsideTriangle(p, a, b, c) ==
  LET A  == area2(a, b, c)
      A1 == area2(p, b, c)
      A2 == area2(a, p, c)
      A3 == area2(a, b, p)
  IN  Abs(A - (A1 + A2 + A3)) < (2 * Px(1) * Px(1)) \div 100

(***************************************************************************)
(* Periphery detector                                                      *)
(***************************************************************************)

\* adj[v]: for each edge in order, adj[a].push(b); adj[b].push(a).
RECURSIVE Adjacency(_, _, _)
Adjacency(edges, v, k) ==
  IF k > Len(edges) THEN <<>>
  ELSE LET a == edges[k][1]
           b == edges[k][2]
       IN  (IF a = v THEN <<b>> ELSE <<>>) \o (IF b = v THEN <<a>> ELSE <<>>)
             \o Adjacency(edges, v, k + 1)

\* The leftmost vertex, ties broken by the smaller y, then by the smaller index.
RECURSIVE Leftmost(_, _, _)
Leftmost(vertices, i, start) ==
  IF i >= Len(vertices) THEN start
  ELSE LET v == At(vertices, i).pos
           s == At(vertices, start).pos
       IN  IF v.x < s.x \/ (v.x = s.x /\ v.y < s.y)
           THEN Leftmost(vertices, i + 1, i)
           ELSE Leftmost(vertices, i + 1, start)

\* Where Math.atan2(dy, dx) lies: below the x axis, 0, above the x axis, pi.
AngleClass(dx, dy) ==
  IF dy < 0 THEN 0
  ELSE IF dy > 0 THEN 2
  ELSE IF dx >= 0 THEN 1
  ELSE 3

\* atan2(ay, ax) < atan2(by, bx)
AngleLess(ax, ay, bx, by) ==
  LET ca == AngleClass(ax, ay)
      cb == AngleClass(bx, by)
  IN  \/ ca < cb
      \/ ca = cb /\ ca \in {0, 2} /\ ax * by - ay * bx > 0

\* The comparator of sortNeighborsByAngle is negative: a sorts before b.
NeighborBefore(vertices, vertexIdx, a, b) ==
  LET o == At(vertices, vertexIdx).pos
      pa == At(vertices, a).pos
      pb == At(vertices, b).pos
  IN  AngleLess(pa.x - o.x, pa.y - o.y, pb.x - o.x, pb.y - o.y)

\* Array.prototype.sort is stable: x goes behind every element not after it.
RECURSIVE InsertByAngle(_, _, _, _)
InsertByAngle(vertices, vertexIdx, sorted, x) ==
  IF sorted = <<>> THEN <<x>>
  ELSE IF NeighborBefore(vertices, vertexIdx, x, Head(sorted))
       THEN <<x>> \o sorted
       ELSE <<Head(sorted)>> \o InsertByAngle(vertices, vertexIdx, Tail(sorted), x)

RECURSIVE SortFrom(_, _, _, _, _)
SortFrom(vertices, vertexIdx, neighbors, k, sorted) ==
  IF k > Len(neighbors) THEN sorted
  ELSE SortFrom(vertices, vertexIdx, neighbors, k + 1,
                InsertByAngle(vertices, vertexIdx, sorted, neighbors[k]))

sortNeighborsByAngle(vertices, edges, vertexIdx) ==
  SortFrom(vertices, vertexIdx, Adjacency(edges, vertexIdx, 1), 1, <<>>)

\* sortedNeighbors.indexOf(x), 1-based; 0 when absent.
IndexOf(arr, x) ==
  IF Includes(arr, x) THEN CHOOSE k \in 1 .. Len(arr) : arr[k] = x /\ \A j \in 1 .. (k - 1) : arr[j] # x
  ELSE 0

\* A walk that always leaves by the first neighbor.
FirstNeighbor(sortedNeighbors, prevVertex, prevIndex) ==
  sortedNeighbors[1]

\* Lines 73-86: the neighbor after prevVertex in angular order, the first
\* neighbor on the first step.
NextVertex(sortedNeighbors, prevVertex, prevIndex) ==
  IF prevVertex = Null \/ prevIndex = 0
  THEN sortedNeighbors[1]
  ELSE sortedNeighbors[(prevIndex % Len(sortedNeighbors)) + 1]

NextOf(sortedNeighbors, prevVertex) ==
  NextVertex(sortedNeighbors, prevVertex, IndexOf(sortedNeighbors, prevVertex))

\* The do-while loop of getPeriphery: current has been pushed, nextVertex chosen.
RECURSIVE Walk(_, _, _, _, _, _)
Walk(vertices, edges, start, pushed, current, nextVertex) ==
  IF nextVertex = start THEN pushed
  ELSE IF Len(pushed) < Len(vertices)
       THEN Walk(vertices, edges, start, Append(pushed, nextVertex), nextVertex,
                 NextOf(sortNeighborsByAngle(vertices, edges, nextVertex), current))
       ELSE pushed

WalkFrom(vertices, edges, start) ==
  Walk(vertices, edges, start, <<start>>, start,
       NextOf(sortNeighborsByAngle(vertices, edges, start), Null))

\* getPeriphery throws a TypeError: an edge names an index outside the vertex
\* list (adj[a] is undefined), or the walk starts on a vertex without
\* neighbours (sortedNeighbors[0] is undefined and becomes the next current).
PeripheryThrows(vertices, edges) ==
  /\ Len(vertices) > 3
  /\ \/ \E k \in 1 .. Len(edges) : \E j \in 1 .. 2 : edges[k][j] \notin Indices(vertices)
     \/ Adjacency(edges, Leftmost(vertices, 0, 0), 1) = <<>>

getPeriphery(vertices, edges) ==
  IF Len(vertices) < 3 THEN <<>>
  ELSE IF Len(vertices) = 3 THEN <<0, 1, 2>>
  ELSE WalkFrom(vertices, edges, Leftmost(vertices, 0, 0))

(***************************************************************************)
(* Placement search                                                        *)
(***************************************************************************)

RECURSIVE SumSeq(_)
SumSeq(s) == IF s = <<>> THEN 0 ELSE Head(s) + SumSeq(Tail(s))

\* reduce((acc, v) => acc + v.pos / n) over the vertices at the given indices.
Centroid(vertices, idxs) ==
  LET n == Len(idxs)
  IN  Pt(RoundDiv(SumSeq([k \in 1 .. n |-> At(vertices, idxs[k]).pos.x]), n),
         RoundDiv(SumSeq([k \in 1 .. n |-> At(vertices, idxs[k]).pos.y]), n))

AllIndices(vertices) == [k \in 1 .. Len(vertices) |-> k - 1]

\* A direction is the vector (x / len, y / len).
Dir(x, y, len) == [x |-> x, y |-> y, len |-> len]

\* { x: c.x + direction.x * distance, y: c.y + direction.y * distance }
Along(c, direction, distance) ==
  Pt(c.x + RoundDiv(direction.x * Px(distance), direction.len),
     c.y + RoundDiv(direction.y * Px(distance), direction.len))

\* The sum, over the vertices outside the segment, of their distance to p.
DistanceToOthers(vertices, peripheryIndices, p) ==
  SumSeq([k \in 1 .. Len(vertices) |->
            IF Includes(peripheryIndices, k - 1) THEN 0
            ELSE Hypot(p.x - vertices[k].pos.x, p.y - vertices[k].pos.y)])

\* Lines 172-227: the perpendicular of a 2-vertex segment, turned to the side
\* whose probe point at 50 is farther from the other vertices on average (the
\* two averages divide by the same count, so the sums are compared).
Normalized(x, y, length) == IF length > 0 THEN Dir(x, y, length) ELSE Dir(0, 0, 1)

Opposite(direction) == Dir(0 - direction.x, 0 - direction.y, direction.len)

OutwardSide(vertices, peripheryIndices, centroid, direction) ==
  LET count == Cardinality({i \in Indices(vertices) : ~Includes(peripheryIndices, i)})
      avgDistanceToOthers ==
        DistanceToOthers(vertices, peripheryIndices, Along(centroid, direction, 50))
      avgDistanceOpposite ==
        DistanceToOthers(vertices, peripheryIndices,
                         Along(centroid, Opposite(direction), 50))
  IN  IF count > 0 /\ avgDistanceOpposite > avgDistanceToOthers
      THEN Opposite(direction)
      ELSE direction

PerpendicularDirection(vertices, peripheryIndices, centroid) ==
  LET v1 == At(vertices, peripheryIndices[1]).pos
      v2 == At(vertices, peripheryIndices[2]).pos
      perpX == 0 - (v2.y - v1.y)
      perpY == v2.x - v1.x
  IN  OutwardSide(vertices, peripheryIndices, centroid,
                  Normalized(perpX, perpY, Sqrt(perpX * perpX + perpY * perpY)))

\* Lines 228-250: from the centre of the graph towards the segment centroid.
FromCenter(dx, dy, length) == IF length > 0 THEN Dir(dx, dy, length) ELSE Dir(1, 0, 1)

OutwardDirection(vertices, centroid) ==
  LET graphCenter == Centroid(vertices, AllIndices(vertices))
      dx == centroid.x - graphCenter.x
      dy == centroid.y - graphCenter.y
  IN  FromCenter(dx, dy, Sqrt(dx * dx + dy * dy))

distances == <<60, 40, 80, 100, 120, 140, 160, 180, 200>>

\* Lines 261-299: the three checks a candidate must pass.
InBounds(candidate, width, height) ==
  ~ \/ candidate.x < Px(30)
    \/ candidate.x > Px(width - 30)
    \/ candidate.y < Px(30)
    \/ candidate.y > Px(height - 30)

tooClose(vertices, candidate) ==
  \E k \in 1 .. Len(vertices) : CloserThan(candidate, vertices[k].pos, Px(44))

wouldCross(vertices, edges, peripheryIndices, candidate) ==
  \E s \in 1 .. Len(peripheryIndices) : \E k \in 1 .. Len(edges) :
    /\ ~Includes(peripheryIndices, edges[k][1])
    /\ ~Includes(peripheryIndices, edges[k][2])
    /\ doLinesIntersect(At(vertices, peripheryIndices[s]).pos, candidate,
                        At(vertices, edges[k][1]).pos, At(vertices, edges[k][2]).pos)

ValidCandidate(vertices, edges, peripheryIndices, width, height, candidate) ==
  /\ InBounds(candidate, width, height)
  /\ ~tooClose(vertices, candidate)
  /\ ~wouldCross(vertices, edges, peripheryIndices, candidate)

NoPosition == [found |-> FALSE, pos |-> Pt(0, 0)]

Position(p) == [found |-> TRUE, pos |-> p]

\* Lines 170-250: the direction in which the candidates lie.
Direction(vertices, peripheryIndices, centroid) ==
  IF Len(peripheryIndices) = 2
  THEN PerpendicularDirection(vertices, peripheryIndices, centroid)
  ELSE OutwardDirection(vertices, centroid)

\* The last of the candidates that is valid.
LastValid(vertices, edges, peripheryIndices, width, height, candidates) ==
  LET good == { k \in 1 .. Len(candidates) :
                  ValidCandidate(vertices, edges, peripheryIndices, width, height,
                                 candidates[k]) }
  IN  IF good = {} THEN NoPosition
      ELSE Position(candidates[CHOOSE k \in good : \A j \in good : k >= j])

\* The first of the candidates, in the order of the trial distances, that is valid.
FirstValid(vertices, edges, peripheryIndices, width, height, candidates) ==
  LET good == { k \in 1 .. Len(candidates) :
                  ValidCandidate(vertices, edges, peripheryIndices, width, height,
                                 candidates[k]) }
  IN  IF good = {} THEN NoPosition
      ELSE Position(candidates[CHOOSE k \in good : \A j \in good : k <= j])

Candidates(centroid, direction) ==
  [k \in 1 .. Len(distances) |-> Along(centroid, direction, distances[k])]

CandidatesFrom(vertices, peripheryIndices, centroid) ==
  Candidates(centroid, Direction(vertices, peripheryIndices, centroid))

findValidPosition(vertices, edges, peripheryIndices, width, height) ==
  IF Len(peripheryIndices) < 2 THEN NoPosition
  ELSE FirstValid(vertices, edges, peripheryIndices, width, height,
                  CandidatesFrom(vertices, peripheryIndices,
                                 Centroid(vertices, peripheryIndices)))

(***************************************************************************)
(* Segment validator and command parsing                                   *)
(***************************************************************************)

\* A gate that lets every segment through.
GateOpen(edges, segment) == TRUE

isFullyConnected(edges, segment) ==
  \A i \in 1 .. Len(segment) : \A j \in (i + 1) .. Len(segment) :
    Key(<<segment[i], segment[j]>>) \in EdgeSet(edges)

\* The text "A, a-b" as Range(a, b) and the text "A, a,b,c" as List(<<a, b, c>>).
Range(a, b) == [range |-> TRUE, nums |-> <<a, b>>]

List(nums) == [range |-> FALSE, nums |-> nums]

\* Lines 312-319: the numbers the command selects; none for a range with start > end.
CommandIndices(cmd) ==
  IF cmd.range
  THEN cmd.nums[1] .. cmd.nums[2]
  ELSE { cmd.nums[k] : k \in 1 .. Len(cmd.nums) }

\* Lines 334-339: the sorted orders are a run of successive numbers.
SimpleRun(orders) == \A i \in 2 .. Len(orders) : orders[i] = orders[i - 1] + 1

\* A check that takes no selection for a wrap-around run.
NoWrapAround(orders, maxOrder) == FALSE

\* Lines 342-380: the sorted orders start at 1, end at the last rank, and
\* have exactly one break.
WrapAroundRun(orders, maxOrder) ==
  LET breaks == { i \in 2 .. Len(orders) : orders[i] # orders[i - 1] + 1 }
  IN  /\ Len(orders) > 1
      /\ orders[1] = 1
      /\ orders[Len(orders)] = maxOrder
      /\ Cardinality(breaks) = 1

NoSegment == [ok |-> FALSE, segment |-> <<>>]

\* The value of parseAddCommand: null, or the selected vertex indices in
\* periphery order.
parseAddCommand(cmd, periphery) ==
  IF cmd.range /\ cmd.nums[1] > cmd.nums[2] THEN NoSegment
  ELSE LET indices == CommandIndices(cmd)
           orders == SelectSeq([k \in 1 .. Len(periphery) |-> k], LAMBDA k : k \in indices)
           selected == [k \in 1 .. Len(orders) |-> periphery[orders[k]]]
       IN  IF Len(selected) < 2 THEN NoSegment
           ELSE IF SimpleRun(orders) \/ WrapAroundRun(orders, Len(periphery))
                THEN [ok |-> TRUE, segment |-> selected]
                ELSE NoSegment

(***************************************************************************)
(* Insertion engine                                                        *)
(***************************************************************************)

Vertex(id, color, pos) == [id |-> id, color |-> color, pos |-> pos]

RECURSIVE MaxId(_)
MaxId(vertices) ==
  IF vertices = <<>> THEN 0 ELSE Max(Head(vertices).id, MaxId(Tail(vertices)))

\* An id that is always 1.
FirstId(vertices) == 1

getNextVertexId(vertices) == IF Len(vertices) = 0 THEN 1 ELSE MaxId(vertices) + 1

\* Every pair pushed, present or not.
PushAll(edges, pairs) == edges \o pairs

\* For each pair in order: push it unless the edge list has it, in either direction.
RECURSIVE PushMissing(_, _)
PushMissing(edges, pairs) ==
  IF pairs = <<>> THEN edges
  ELSE LET e == Head(pairs)
       IN  PushMissing(IF HasEdge(edges, e[1], e[2]) THEN edges ELSE Append(edges, e),
                       Tail(pairs))

\* [segment[i], segment[(i + 1) % n]] for each i.
SegmentEdges(segment) ==
  [i \in 1 .. Len(segment) |-> <<segment[i], segment[(i % Len(segment)) + 1]>>]

\* A step 2 that starts from an empty edge list.
ConnectAfresh(edges, newIdx, connectTo) ==
  [i \in 1 .. Len(connectTo) |-> <<newIdx, connectTo[i]>>]

\* A step 2 that pushes nothing.
ConnectNone(edges, newIdx, connectTo) == edges

\* Step 2: connectTo.forEach(idx => newEdges.push([newIdx, idx]))
ConnectNew(edges, newIdx, connectTo) ==
  edges \o [i \in 1 .. Len(connectTo) |-> <<newIdx, connectTo[i]>>]

\* Step 3: close the cycle among the segment vertices.
CloseCycle(edges, connectTo) == PushMissing(edges, SegmentEdges(connectTo))

\* Step 4, lines 527-546: for each segment edge and each other old vertex
\* inside the triangle it spans with the new vertex, the three edges to add.
RECURSIVE RepairPairs(_, _, _, _, _, _)
RepairPairs(vertices, segmentEdges, newIdx, pos, s, vi) ==
  IF s > Len(segmentEdges) THEN <<>>
  ELSE IF vi >= Len(vertices) THEN RepairPairs(vertices, segmentEdges, newIdx, pos, s + 1, 0)
  ELSE LET aI == segmentEdges[s][1]
           bI == segmentEdges[s][2]
           inside ==
             /\ vi # aI /\ vi # bI /\ vi # newIdx
             /\ isPointInsideTriangle(At(vertices, vi).pos,
                                      At(vertices, aI).pos, At(vertices, bI).pos, pos)
       IN  (IF inside THEN << <<aI, vi>>, <<bI, vi>>, <<newIdx, vi>> >> ELSE <<>>)
             \o RepairPairs(vertices, segmentEdges, newIdx, pos, s, vi + 1)

\* An insertion that repairs nothing.
NoRepair(vertices, edges, connectTo, newIdx, pos) == edges

InteriorRepair(vertices, edges, connectTo, newIdx, pos) ==
  PushMissing(edges, RepairPairs(vertices, SegmentEdges(connectTo), newIdx, pos, 1, 0))

\* The value of addVertexToSegment: null (ok is FALSE), or the new lists.
addVertexToSegment(prev, connectTo, pos) ==
  IF ~isFullyConnected(prev.edges, connectTo)
  THEN [ok |-> FALSE, newVertices |-> prev.vertices, newEdges |-> prev.edges]
  ELSE LET newIdx == Len(prev.vertices)
           newVertices ==
             Append(prev.vertices, Vertex(getNextVertexId(prev.vertices), Null, pos))
           connected == ConnectNew(prev.edges, newIdx, connectTo)
           closed == CloseCycle(connected, connectTo)
       IN  [ok |-> TRUE,
            newVertices |-> newVertices,
            newEdges |-> InteriorRepair(prev.vertices, closed, connectTo, newIdx, pos)]

(***************************************************************************)
(* Greedy coloring                                                         *)
(***************************************************************************)

\* A test that takes every vertex for uncolored.
NeverColored(color) == FALSE

\* A vertex's color counts as set: if (prev.vertices[idx].color)
Truthy(color) == color # Null /\ color # 0

Neighbors(edges, idx) ==
  { edges[k][2] : k \in { j \in 1 .. Len(edges) : edges[j][1] = idx } }
    \cup { edges[k][1] : k \in { j \in 1 .. Len(edges) : edges[j][1] # idx /\ edges[j][2] = idx } }

\* A coloring that ignores the neighbors.
FirstColor(vertices, edges, idx, palette) == 1

\* Lines 395-408.
colorVertex(vertices, edges, idx, palette) ==
  LET used == { At(vertices, i).color : i \in Neighbors(edges, idx) } \ {Null}
      free == { c \in 1 .. Len(palette) : c \notin used }
  IN  IF free = {} THEN 1 ELSE CHOOSE c \in free : \A d \in free : c <= d

(***************************************************************************)
(* Re-layout engine                                                        *)
(***************************************************************************)

\* R * Math.cos(Math.PI / 6)
TimesCos30(R) == RoundDiv(R * 866025, 1000000)

\* The positions of the first three vertices: lines 556-566 and 1101-1108.
TrianglePositions(w, h) ==
  LET R  == RoundDiv(Px(Min(w, h)), 10)
      cx == RoundDiv(Px(w), 2)
      cy == RoundDiv(Px(h), 2)
  IN  << Pt(cx, cy - R),
         Pt(cx + TimesCos30(R), cy + RoundDiv(R, 2)),
         Pt(cx - TimesCos30(R), cy + RoundDiv(R, 2)) >>

\* Two values of Math.random(), in thousandths: u for x and v for y.
Draw(u, v) == [u |-> u, v |-> v]

\* { x: lo + Math.random() * (width - 2 * lo), y: lo + Math.random() * (height - 2 * lo) }
RandomPosition(rnd, lo, width, height) ==
  Pt(Px(lo) + RoundDiv(rnd.u * Px(width - 2 * lo), 1000),
     Px(lo) + RoundDiv(rnd.v * Px(height - 2 * lo), 1000))

\* { x: cx + (Math.random() - 0.5) * 100, y: cy + (Math.random() - 0.5) * 100 }
JitteredCenter(rnd, w, h) ==
  Pt(RoundDiv(Px(w), 2) + RoundDiv((rnd.u - 500) * Px(100), 1000),
     RoundDiv(Px(h), 2) + RoundDiv((rnd.v - 500) * Px(100), 1000))

\* Line 571: edges.filter(([a, b]) => a < 3 && b < 3)
SeedEdges(edges) == SelectSeq(edges, LAMBDA e : e[1] < 3 /\ e[2] < 3)

\* A vertex that counts none of its edges.
NoConnections(edges, i) == <<>>

\* Lines 576-579: the lower-indexed vertices that vertex i has an edge to.
originalConnections(edges, i) ==
  LET incident == SelectSeq(edges, LAMBDA e : e[1] = i \/ e[2] = i)
      others == [k \in 1 .. Len(incident) |->
                   IF incident[k][1] = i THEN incident[k][2] ELSE incident[k][1]]
  IN  SelectSeq(others, LAMBDA connIdx : connIdx < i)

\* The segment of segLen periphery entries from startIdx on, cyclically.
SegmentAt(periphery, startIdx, segLen) ==
  [j \in 1 .. segLen |-> periphery[((startIdx + j - 1) % Len(periphery)) + 1]]

NoBest == [found |-> FALSE, segment |-> <<>>, pos |-> Pt(0, 0), matches |-> 0]

\* Line 601: segment.filter(idx => originalConnections.includes(idx)).length
MatchCount(conns, segment) ==
  Cardinality({ k \in 1 .. Len(segment) : Includes(conns, segment[k]) })

\* Lines 599-609: the segment replaces the best one so far.
Better(best, segment, connected, matchCount, pos) ==
  IF connected /\ pos.found /\ matchCount >= best.matches
  THEN [found |-> TRUE, segment |-> segment, pos |-> pos.pos, matches |-> matchCount]
  ELSE best

Consider(vertices, edges, conns, w, h, segment, best) ==
  Better(best, segment, isFullyConnected(edges, segment), MatchCount(conns, segment),
         findValidPosition(vertices, edges, segment, w, h))

\* Lines 586-611: the two nested loops, entered at (segLen, startIdx) with the
\* best segment so far.
RECURSIVE BestSegment(_, _, _, _, _, _, _, _, _)
BestSegment(vertices, edges, periphery, conns, w, h, segLen, startIdx, best) ==
  IF segLen > Min(Len(periphery), Len(conns) + 2) THEN best
  ELSE IF startIdx >= Len(periphery)
       THEN BestSegment(vertices, edges, periphery, conns, w, h, segLen + 1, 0, best)
       ELSE BestSegment(vertices, edges, periphery, conns, w, h, segLen, startIdx + 1,
                        Consider(vertices, edges, conns, w, h,
                                 SegmentAt(periphery, startIdx, segLen), best))

\* [i, idx] for each idx, pushed unless present.
ConnectMissing(edges, i, idxs) ==
  PushMissing(edges, [k \in 1 .. Len(idxs) |-> <<i, idxs[k]>>])

\* Lines 633-642: close the segment's cycle with edges of the original graph only.
CloseOriginalCycle(currentEdges, edges, bestSegment) ==
  PushMissing(currentEdges,
              SelectSeq(SegmentEdges(bestSegment), LAMBDA e : HasEdge(edges, e[1], e[2])))

\* Lines 648-656: the original edges of vertex i among the vertices placed so far.
OriginalEdgesUpTo(currentEdges, edges, i) ==
  PushMissing(currentEdges,
              SelectSeq(edges, LAMBDA e : (e[1] = i \/ e[2] = i) /\ Max(e[1], e[2]) <= i))

\* Lines 613-656: vertex i placed on the best segment.
PlaceOnSegment(currentEdges, edges, i, conns, bestSegment) ==
  OriginalEdgesUpTo(
    CloseOriginalCycle(
      ConnectMissing(ConnectMissing(currentEdges, i, conns), i, bestSegment),
      edges, bestSegment),
    edges, i)

\* Lines 659-707: the first of the 50 random samples that keeps its distance,
\* or the jittered center. A draw stands for all 50 samples.
FallbackAt(currentVertices, pos, center) ==
  IF ~tooClose(currentVertices, pos) THEN pos ELSE center

FallbackPosition(currentVertices, rnd, w, h) ==
  FallbackAt(currentVertices, RandomPosition(rnd, 50, w, h), JitteredCenter(rnd, w, h))

\* A final pass that restores nothing.
Unrestored(currentEdges, edges) == currentEdges

\* Lines 712-719: the final pass over the original edges.
RestoreOriginalEdges(currentEdges, edges) == PushMissing(currentEdges, edges)

Moved(vertex, pos) == [vertex EXCEPT !.pos = pos]

\* Lines 613-708: vertex i and the edges after it has been placed; random
\* tells whether Math.random() was drawn from.
Placement(vertex, currentVertices, currentEdges, edges, w, h, rnd, i, conns, best) ==
  IF best.found
  THEN [placed |-> Moved(vertex, best.pos),
        edges |-> PlaceOnSegment(currentEdges, edges, i, conns, best.segment),
        random |-> FALSE]
  ELSE [placed |-> Moved(vertex, FallbackPosition(currentVertices, rnd, w, h)),
        edges |-> ConnectMissing(currentEdges, i, conns),
        random |-> TRUE]

\* Lines 583-611: the best segment of the periphery of what is placed so far.
BestOn(currentVertices, currentEdges, periphery, conns, w, h) ==
  BestSegment(currentVertices, currentEdges, periphery, conns, w, h, 2, 0, NoBest)

PlaceVertex(vertex, currentVertices, currentEdges, edges, w, h, rnd, i, conns) ==
  Placement(vertex, currentVertices, currentEdges, edges, w, h, rnd, i, conns,
            BestOn(currentVertices, currentEdges,
                   getPeriphery(currentVertices, currentEdges), conns, w, h))

\* What the loop carries from vertex to vertex.
Layout(newVertices, currentVertices, currentEdges, random) ==
  [newVertices |-> newVertices, currentVertices |-> currentVertices,
   currentEdges |-> currentEdges, random |-> random]

\* The loop of lines 574-710, entered at vertex i.
RECURSIVE RedrawFrom(_, _, _, _, _, _)
RECURSIVE Advance(_, _, _, _, _, _, _)
RECURSIVE Visit(_, _, _, _, _, _, _)

RedrawFrom(layout, edges, w, h, rnd, i) ==
  IF i >= Len(layout.newVertices)
  THEN [threw |-> FALSE, vertices |-> layout.newVertices,
        edges |-> RestoreOriginalEdges(layout.currentEdges, edges),
        random |-> layout.random]
  ELSE Visit(layout, edges, w, h, rnd, i, originalConnections(edges, i))

Visit(layout, edges, w, h, rnd, i, conns) ==
  IF Len(conns) < 2 THEN RedrawFrom(layout, edges, w, h, rnd, i + 1)
  ELSE IF PeripheryThrows(layout.currentVertices, layout.currentEdges)
       THEN [threw |-> TRUE, vertices |-> layout.newVertices,
             edges |-> layout.currentEdges, random |-> layout.random]
       ELSE Advance(layout, edges, w, h, rnd, i,
                    PlaceVertex(At(layout.newVertices, i), layout.currentVertices,
                                layout.currentEdges, edges, w, h, rnd, i, conns))

Advance(layout, edges, w, h, rnd, i, step) ==
  RedrawFrom(Layout([layout.newVertices EXCEPT ![i + 1] = step.placed],
                    Append(layout.currentVertices, step.placed), step.edges,
                    layout.random \/ step.random),
             edges, w, h, rnd, i + 1)

\* Lines 561-567: the first three vertices on the triangle, the others at the origin.
Repositioned(vertices, triangle) ==
  [k \in 1 .. Len(vertices) |->
     [vertices[k] EXCEPT !.pos = IF k <= 3 THEN triangle[k] ELSE Pt(0, 0)]]

RedrawOn(newVertices, edges, canvasWidth, canvasHeight, rnd) ==
  RedrawFrom(Layout(newVertices, SubSeq(newVertices, 1, 3), SeedEdges(edges), FALSE),
             edges, canvasWidth, canvasHeight, rnd, 3)

redrawGraph(vertices, edges, canvasWidth, canvasHeight, rnd) ==
  IF Len(vertices) < 3
  THEN [threw |-> FALSE, vertices |-> vertices, edges |-> edges, random |-> FALSE]
  ELSE RedrawOn(Repositioned(vertices, TrianglePositions(canvasWidth, canvasHeight)),
                edges, canvasWidth, canvasHeight, rnd)

(***************************************************************************)
(* Manual drawing                                                          *)
(***************************************************************************)

manualDistances == <<80, 60, 100, 120, 140, 160>>

\* vertices.findIndex(v => v.id === id), 0-based; -1 when absent.
FindIndex(vertices, id) ==
  IF \E k \in 1 .. Len(vertices) : vertices[k].id = id
  THEN (CHOOSE k \in 1 .. Len(vertices) :
          vertices[k].id = id /\ \A j \in 1 .. (k - 1) : vertices[j].id # id) - 1
  ELSE -1

\* Lines 1031-1041: an edge touching neither selected id is crossed by one of
\* the two new edges.
manualWouldCross(vertices, edges, id1, id2, v1Pos, v2Pos, candidate) ==
  \E k \in 1 .. Len(edges) :
    LET a == At(vertices, edges[k][1])
        b == At(vertices, edges[k][2])
    IN  /\ a.id \notin {id1, id2}
        /\ b.id \notin {id1, id2}
        /\ \/ doLinesIntersect(candidate, v1Pos, a.pos, b.pos)
           \/ doLinesIntersect(candidate, v2Pos, a.pos, b.pos)

\* Lines 1001-1049: the perpendicular trials, each distance on side 1 then -1.
PerpendicularPlacement(vertices, edges, id1, id2, idx1, idx2, width, height) ==
  LET v1Pos == At(vertices, idx1).pos
      v2Pos == At(vertices, idx2).pos
      mid == Pt(RoundDiv(v1Pos.x + v2Pos.x, 2), RoundDiv(v1Pos.y + v2Pos.y, 2))
      dx == v2Pos.x - v1Pos.x
      dy == v2Pos.y - v1Pos.y
      length == Sqrt(dx * dx + dy * dy)
      \* trial t: distance (t + 1) \div 2, side 1 for odd t and -1 for even t
      candidate(t) ==
        Along(mid,
              IF t % 2 = 1 THEN Dir(0 - dy, dx, length) ELSE Dir(dy, 0 - dx, length),
              manualDistances[(t + 1) \div 2])
      good == { t \in 1 .. 2 * Len(manualDistances) :
                  /\ InBounds(candidate(t), width, height)
                  /\ ~tooClose(vertices, candidate(t))
                  /\ ~manualWouldCross(vertices, edges, id1, id2, v1Pos, v2Pos,
                                       candidate(t)) }
  IN  IF length = 0 \/ good = {} THEN NoPosition
      ELSE Position(candidate(CHOOSE t \in good : \A u \in good : t <= u))

\* Lines 1050-1070: the first of the 100 random samples that keeps its
\* distance. A draw stands for all 100 samples.
RandomSafePlacement(vertices, rnd, width, height) ==
  LET candidate == RandomPosition(rnd, 60, width, height)
  IN  IF tooClose(vertices, candidate) THEN NoPosition ELSE Position(candidate)

(***************************************************************************)
(* State                                                                   *)
(***************************************************************************)
(* Saving: the JSON text of a graph                                        *)
(***************************************************************************)

\* The decimal digits of k >= 0, most significant first.
RECURSIVE Digits(_)
Digits(k) == IF k < 10 THEN <<k>> ELSE Append(Digits(k \div 10), k % 10)

\* JSON.stringify of null.
NullText == [null |-> TRUE, neg |-> FALSE, int |-> <<>>, frac |-> <<>>]

\* JSON.stringify of a number held in units of 1 / unit (unit is 1 or 10): the
\* sign, the digits before the point and the digits after it, none for a whole
\* number.
NumberText(n, unit) ==
  [null |-> FALSE,
   neg  |-> n < 0,
   int  |-> Digits(Abs(n) \div unit),
   frac |-> IF Abs(n) % unit = 0 THEN <<>> ELSE << Abs(n) % unit >>]

\* JSON.stringify of a color: null, or the number.
ColorText(color) == IF color = Null THEN NullText ELSE NumberText(color, 1)

\* Lines 413-417: { id: v.id, color: v.color, pos: v.pos } as text.
VertexText(v) ==
  [id    |-> NumberText(v.id, 1),
   color |-> ColorText(v.color),
   pos   |-> [x |-> NumberText(v.pos.x, Px(1)), y |-> NumberText(v.pos.y, Px(1))]]

\* A save that writes every vertex without its color.
SaveUncolored(vertices, edges, colors) ==
  [vertices |-> [k \in 1 .. Len(vertices) |->
                   [VertexText(vertices[k]) EXCEPT !.color = NullText]],
   edges    |-> [k \in 1 .. Len(edges) |->
                   << NumberText(edges[k][1], 1), NumberText(edges[k][2], 1) >>],
   colors   |-> [k \in 1 .. Len(colors) |-> NumberText(colors[k], 1)]]

\* Lines 411-430: the text of the file saveGraph offers for download.
saveGraph(vertices, edges, colors) ==
  [vertices |-> [k \in 1 .. Len(vertices) |-> VertexText(vertices[k])],
   edges    |-> [k \in 1 .. Len(edges) |->
                   << NumberText(edges[k][1], 1), NumberText(edges[k][2], 1) >>],
   colors   |-> [k \in 1 .. Len(colors) |-> NumberText(colors[k], 1)]]

\* No graph.json has been downloaded yet.
NoFile == [exists |-> FALSE, text |-> saveGraph(<<>>, <<>>, <<>>)]

(***************************************************************************)

VARIABLES
  graph,            \* useState graph: [vertices, edges, colors]
  dimensions,       \* useState dimensions: [width, height], in pixels
  warning,          \* useState warning: the message shown, "" for none
  showManualModal,  \* useState showManualModal
  crashed,          \* an updater threw: the component tree is gone
  last,             \* history: the setGraph handler that ran last
  history,          \* history: how the graph was built
  saved             \* the download graph.json: the text saveGraph wrote last

vars == <<graph, dimensions, warning, showManualModal, crashed, last, history, saved>>

\* The most vertices a graph is grown to.
MaxVertices == 4

\* The most vertices a graph is grown to by insertions alone.
MaxBuild == 5

\* The window sizes updateSize may report.
DimChoices == { [width |-> 800, height |-> 600], [width |-> 120, height |-> 120] }

\* The values of Math.random() a handler may draw.
RandomDraws == { Draw(250, 250), Draw(750, 750) }

\* The periphery ranks a command may name.
Ranks(g) == 1 .. (Len(g.vertices) + 1)

\* The A commands typed: every range, every list of two or three ranks.
Commands(g) ==
  { Range(a, b) : a \in Ranks(g), b \in Ranks(g) }
    \cup { List(<<p[1], p[2]>>) : p \in { q \in Ranks(g) \X Ranks(g) : q[1] < q[2] } }
    \cup { List(<<p[1], p[2], p[3]>>) :
             p \in { q \in Ranks(g) \X Ranks(g) \X Ranks(g) : q[1] < q[2] /\ q[2] < q[3] } }

Graph(vertices, edges, colors) == [vertices |-> vertices, edges |-> edges, colors |-> colors]

\* The setGraph handler that ran last, and whether it returned a new graph.
Last(op, ok) == [op |-> op, ok |-> ok]

\* The messages of setWarning, those of lines 948, 988, 1072 and 1192 cut short.
WarnNeedSeed == "Need at least 3 vertices to add to periphery. Press S to start."
WarnPeriphery == "Periphery too small - need at least 2 periphery vertices."
WarnInvalid == "Invalid command. Use consecutive periphery vertices"
WarnNotConnected == "Selected vertices must be fully connected to each other for natural construction."
WarnNoPosition == "No valid position found - would cause edge crossings or invalid placement."
WarnFailed == "Failed to add vertex - segment connectivity issue."
WarnRandom == "No valid position found"
WarnRedraw == "Need at least 3 vertices to redraw. Press S to start."
WarnManualSeed == "Need at least 3 vertices for manual drawing. Press S to start."
WarnSameIds == "Please select two different vertex IDs."
WarnNotPeriphery == "Both vertices must be on the periphery (orange outline)."
WarnNotFound == "Vertex not found."
WarnManualPosition == "Could not find a valid position for the new vertex without edge crossings."

Init ==
  /\ graph = Graph(<<>>, <<>>, <<1, 2, 3, 4>>)
  /\ dimensions = [width |-> 800, height |-> 600]
  /\ warning = ""
  /\ showManualModal = FALSE
  /\ crashed = FALSE
  /\ last = Last("init", FALSE)
  /\ history = [byInsert |-> FALSE, natural |-> FALSE]
  /\ saved = NoFile

(***************************************************************************)
(* Updaters: what the function passed to setGraph comes to                 *)
(***************************************************************************)

\* The updater threw, or it returned graph, having called setWarning(warning)
\* if warned. ok: graph is a new graph; attach: the vertices that the handler
\* joined the new vertex to.
Result(threw, g, warned, message, ok, attach) ==
  [threw |-> threw, graph |-> g, warned |-> warned, warning |-> message,
   ok |-> ok, attach |-> attach]

Threw(prev) == Result(TRUE, prev, FALSE, "", FALSE, <<>>)

\* setWarning(message); return prev
Kept(prev, message) == Result(FALSE, prev, TRUE, message, FALSE, <<>>)

\* return prev
Ignored(prev) == Result(FALSE, prev, FALSE, "", FALSE, <<>>)

\* setWarning(""); return { vertices: result.newVertices, edges: result.newEdges, ... }
Added(prev, connectTo, result) ==
  Result(FALSE, Graph(result.newVertices, result.newEdges, prev.colors), TRUE, "",
         TRUE, connectTo)

\* Lines 1208-1215.
AddResult(prev, connectTo, result) ==
  IF ~result.ok THEN Kept(prev, WarnFailed) ELSE Added(prev, connectTo, result)

\* Lines 1202-1206.
AddAt(prev, connectTo, pos) ==
  IF ~pos.found THEN Kept(prev, WarnNoPosition)
  ELSE AddResult(prev, connectTo, addVertexToSegment(prev, connectTo, pos.pos))

\* Lines 1196-1200.
AddToSegment(prev, connectTo, width, height) ==
  IF ~isFullyConnected(prev.edges, connectTo) THEN Kept(prev, WarnNotConnected)
  ELSE AddAt(prev, connectTo,
             findValidPosition(prev.vertices, prev.edges, connectTo, width, height))

\* Lines 1190-1194.
AddParsed(prev, parsed, width, height) ==
  IF ~parsed.ok \/ Len(parsed.segment) < 2 THEN Kept(prev, WarnInvalid)
  ELSE AddToSegment(prev, parsed.segment, width, height)

\* What the commands typed parse to; commands that parse alike act alike.
Parses(prev, periph) == { parseAddCommand(cmd, periph) : cmd \in Commands(prev) }

AddOn(prev, periph, width, height) ==
  IF Len(periph) < 2 THEN { Kept(prev, WarnPeriphery) }
  ELSE { AddParsed(prev, parsed, width, height) : parsed \in Parses(prev, periph) }

\* Lines 1179-1216: the results of the updater of command "A, ...", one for
\* each command typed.
AddResults(prev, width, height) ==
  IF Len(prev.vertices) < 3 THEN { Kept(prev, WarnNeedSeed) }
  ELSE IF PeripheryThrows(prev.vertices, prev.edges) THEN { Threw(prev) }
  ELSE AddOn(prev, getPeriphery(prev.vertices, prev.edges), width, height)

\* A loop that tries start index 0 only.
OnlyFromZero(prev, periph, segmentLength, width, height) ==
  { startIdx \in {0} :
      LET connectTo == SegmentAt(periph, startIdx, segmentLength)
      IN  /\ isFullyConnected(prev.edges, connectTo)
          /\ findValidPosition(prev.vertices, prev.edges, connectTo, width, height).found
          /\ addVertexToSegment(prev, connectTo, Pt(0, 0)).ok }

\* Lines 920-944: the start indices at which a segment of segmentLength passes
\* all three steps of the loop body.
RandomSuccesses(prev, periph, segmentLength, width, height) ==
  { startIdx \in 0 .. (Len(periph) - 1) :
      LET connectTo == SegmentAt(periph, startIdx, segmentLength)
      IN  /\ isFullyConnected(prev.edges, connectTo)
          /\ findValidPosition(prev.vertices, prev.edges, connectTo, width, height).found
          /\ addVertexToSegment(prev, connectTo, Pt(0, 0)).ok }

\* Lines 933-943: the segment the loops stopped at.
RandomInsert(prev, connectTo, width, height) ==
  Added(prev, connectTo,
        addVertexToSegment(prev, connectTo,
          findValidPosition(prev.vertices, prev.edges, connectTo, width, height).pos))

\* Lines 916-949: the loop over the lengths, entered at segmentLength. The
\* shuffle decides which of the successful start indices comes first.
RECURSIVE RandomFrom(_, _, _, _, _)
RECURSIVE RandomAmong(_, _, _, _, _, _)

\* A search that gives up without a warning.
SilentFrom(prev, periph, segmentLength, width, height) ==
  IF segmentLength > Min(Len(periph), 5) THEN { Ignored(prev) }
  ELSE RandomAmong(prev, periph, segmentLength, width, height,
                   RandomSuccesses(prev, periph, segmentLength, width, height))

RandomFrom(prev, periph, segmentLength, width, height) ==
  IF segmentLength > Min(Len(periph), 5) THEN { Kept(prev, WarnRandom) }
  ELSE RandomAmong(prev, periph, segmentLength, width, height,
                   RandomSuccesses(prev, periph, segmentLength, width, height))

RandomAmong(prev, periph, segmentLength, width, height, successes) ==
  IF successes = {} THEN RandomFrom(prev, periph, segmentLength + 1, width, height)
  ELSE { RandomInsert(prev, SegmentAt(periph, startIdx, segmentLength), width, height) :
           startIdx \in successes }

RandomOn(prev, periph, width, height) ==
  IF Len(periph) < 2 THEN { Ignored(prev) } ELSE RandomFrom(prev, periph, 2, width, height)

\* Lines 905-950: the results of the updater of tryAddRandomVertex, one for
\* each order the shuffles may produce.
RandomResults(prev, width, height) ==
  IF Len(prev.vertices) < 3 THEN { Ignored(prev) }
  ELSE IF PeripheryThrows(prev.vertices, prev.edges) THEN { Threw(prev) }
  ELSE RandomOn(prev, getPeriphery(prev.vertices, prev.edges), width, height)

\* Lines 961-963.
Redrawn(prev, result) ==
  IF result.threw THEN Threw(prev)
  ELSE Result(FALSE, [prev EXCEPT !.vertices = result.vertices, !.edges = result.edges],
              TRUE, "", TRUE, <<>>)

\* The layouts redrawGraph may return: one if the first draw went unused.
RedrawAny(prev, width, height, first) ==
  IF ~first.random THEN { Redrawn(prev, first) }
  ELSE { Redrawn(prev, redrawGraph(prev.vertices, prev.edges, width, height, rnd)) :
           rnd \in RandomDraws }

\* Lines 955-964: the results of the updater of handleRedraw, one for each
\* value Math.random() may take.
RedrawResults(prev, width, height) ==
  IF Len(prev.vertices) < 3 THEN { Kept(prev, WarnRedraw) }
  ELSE RedrawAny(prev, width, height,
                 redrawGraph(prev.vertices, prev.edges, width, height, Draw(250, 250)))

\* vertices[i].color of a neighbor i that is no vertex throws.
ColorThrows(vertices, edges, idx) ==
  \E i \in Neighbors(edges, idx) : i \notin Indices(vertices)

\* A color action that colors the first vertex.
ColoredFirst(prev, idx, color) ==
  Result(FALSE, [prev EXCEPT !.vertices[1].color = color], FALSE, "", TRUE, <<0>>)

Colored(prev, idx, color) ==
  Result(FALSE, [prev EXCEPT !.vertices[idx + 1].color = color], FALSE, "", TRUE, <<idx>>)

\* Lines 1133-1142 and 1228-1237: the updater of the color action.
ColorResult(prev) ==
  IF Len(prev.vertices) = 0 THEN Ignored(prev)
  ELSE IF Truthy(At(prev.vertices, Len(prev.vertices) - 1).color) THEN Ignored(prev)
  ELSE IF ColorThrows(prev.vertices, prev.edges, Len(prev.vertices) - 1) THEN Threw(prev)
  ELSE Colored(prev, Len(prev.vertices) - 1,
               colorVertex(prev.vertices, prev.edges, Len(prev.vertices) - 1,
                           prev.colors))

\* Lines 1071-1090: the new vertex joined to the two selected vertices.
ManualPlaced(prev, idx1, idx2, pos) ==
  IF ~pos.found THEN Kept(prev, WarnManualPosition)
  ELSE Result(FALSE,
              Graph(Append(prev.vertices,
                           Vertex(getNextVertexId(prev.vertices), Null, pos.pos)),
                    prev.edges \o << <<idx1, Len(prev.vertices)>>,
                                     <<idx2, Len(prev.vertices)>> >>,
                    prev.colors),
              TRUE, "", TRUE, <<idx1, idx2>>)

\* Lines 998-1070: the perpendicular trials, then the random samples.
ManualPosition(prev, idx1, idx2, width, height, perpendicular) ==
  IF perpendicular.found THEN { ManualPlaced(prev, idx1, idx2, perpendicular) }
  ELSE { ManualPlaced(prev, idx1, idx2,
                      RandomSafePlacement(prev.vertices, rnd, width, height)) :
           rnd \in RandomDraws }

ManualBetween(prev, id1, id2, idx1, idx2, width, height) ==
  IF idx1 = -1 \/ idx2 = -1 THEN { Kept(prev, WarnNotFound) }
  ELSE ManualPosition(prev, idx1, idx2, width, height,
                      PerpendicularPlacement(prev.vertices, prev.edges, id1, id2,
                                             idx1, idx2, width, height))

\* Lines 983-997.
ManualOn(prev, periphIndices, id1, id2, width, height) ==
  IF \/ \A k \in 1 .. Len(periphIndices) : At(prev.vertices, periphIndices[k]).id # id1
     \/ \A k \in 1 .. Len(periphIndices) : At(prev.vertices, periphIndices[k]).id # id2
  THEN { Kept(prev, WarnNotPeriphery) }
  ELSE ManualBetween(prev, id1, id2, FindIndex(prev.vertices, id1),
                     FindIndex(prev.vertices, id2), width, height)

\* The ids typed into the modal: each id in use and one that is not.
ManualIds(g) ==
  { g.vertices[k].id : k \in 1 .. Len(g.vertices) } \cup { getNextVertexId(g.vertices) }

ManualAny(prev, periphIndices, width, height) ==
  UNION { ManualOn(prev, periphIndices, ids[1], ids[2], width, height) :
            ids \in { p \in ManualIds(prev) \X ManualIds(prev) : p[1] # p[2] } }

\* Lines 976-1091: the results of handleManualDraw, one for each pair of ids
\* typed and each value Math.random() may take.
ManualResults(prev, width, height) ==
  { Kept(prev, WarnSameIds) }
    \cup IF PeripheryThrows(prev.vertices, prev.edges) THEN { Threw(prev) }
         ELSE ManualAny(prev, getPeriphery(prev.vertices, prev.edges), width, height)

(***************************************************************************)
(* Handlers                                                                *)
(***************************************************************************)

\* handleCmdSubmit clears the warning before it dispatches; handleKey does not.
Cleared(viaCmd) == IF viaCmd THEN "" ELSE warning

\* The state after setGraph ran the updater; cleared is the message on display
\* if the updater set none.
Commit(op, result, cleared) ==
  /\ graph' = result.graph
  /\ warning' = IF result.warned THEN result.warning ELSE cleared
  /\ crashed' = result.threw
  /\ last' = Last(op, result.ok)
  /\ UNCHANGED <<dimensions, saved>>

\* A seed whose third side is left open.
OpenSeed(width, height) ==
  LET pos == TrianglePositions(Max(width, 800), Max(height, 600))
  IN  Graph(<< Vertex(1, Null, pos[1]), Vertex(2, Null, pos[2]), Vertex(3, Null, pos[3]) >>,
            << <<0, 1>>, <<1, 2>> >>,
            <<1, 2, 3, 4>>)

\* Lines 1099-1120: the seed triangle of key S.
SeedGraph(width, height) ==
  LET pos == TrianglePositions(Max(width, 800), Max(height, 600))
  IN  Graph(<< Vertex(1, Null, pos[1]), Vertex(2, Null, pos[2]), Vertex(3, Null, pos[3]) >>,
            << <<0, 1>>, <<1, 2>>, <<2, 0>> >>,
            <<1, 2, 3, 4>>)

\* Key S.
Start ==
  /\ ~crashed
  /\ graph' = SeedGraph(dimensions.width, dimensions.height)
  /\ warning' = ""
  /\ last' = Last("start", TRUE)
  /\ history' = [byInsert |-> TRUE, natural |-> TRUE]
  /\ UNCHANGED <<dimensions, showManualModal, crashed, saved>>

\* The history after an insertion by segment: natural while no edge was added
\* by interior repair.
Grown(result) ==
  IF result.ok
  THEN [history EXCEPT !.natural = @ /\ Len(result.graph.edges) =
                                         Len(graph.edges) + Len(result.attach)]
  ELSE history

\* Command "A, ...".
AddCommand ==
  /\ ~crashed
  /\ \E result \in AddResults(graph, dimensions.width, dimensions.height) :
       /\ Commit("add", result, "")
       /\ history' = Grown(result)
  /\ UNCHANGED showManualModal

\* Key R or command "R".
Random ==
  /\ ~crashed
  /\ \E result \in RandomResults(graph, dimensions.width, dimensions.height) :
       /\ \E viaCmd \in IF result.warned THEN {TRUE} ELSE BOOLEAN :
            Commit("random", result, Cleared(viaCmd))
       /\ history' = Grown(result)
  /\ UNCHANGED showManualModal

\* Key D or command "D".
Redraw ==
  /\ ~crashed
  /\ \E result \in RedrawResults(graph, dimensions.width, dimensions.height) :
       /\ Commit("redraw", result, "")
       /\ history' = IF result.ok THEN [byInsert |-> FALSE, natural |-> FALSE]
                      ELSE history
  /\ UNCHANGED showManualModal

\* Key C or command "C".
Color ==
  /\ ~crashed
  /\ \E viaCmd \in BOOLEAN : Commit("color", ColorResult(graph), Cleared(viaCmd))
  /\ UNCHANGED <<showManualModal, history>>

\* Key M or command "M".
OpenManual ==
  /\ ~crashed
  /\ IF Len(graph.vertices) >= 3
     THEN /\ showManualModal' = TRUE
          /\ \E viaCmd \in BOOLEAN : warning' = Cleared(viaCmd)
     ELSE /\ showManualModal' = showManualModal
          /\ warning' = WarnManualSeed
  /\ UNCHANGED <<graph, dimensions, crashed, last, history, saved>>

\* Cancel, Escape, or a click outside the modal.
CancelManual ==
  /\ ~crashed
  /\ showManualModal
  /\ showManualModal' = FALSE
  /\ warning' = ""
  /\ UNCHANGED <<graph, dimensions, crashed, last, history, saved>>

\* The Draw button of the modal: handleManualDraw with the two ids typed.
ManualDraw ==
  /\ ~crashed
  /\ showManualModal
  /\ \E result \in ManualResults(graph, dimensions.width, dimensions.height) :
       /\ Commit("manual", result, warning)
       /\ showManualModal' = (showManualModal /\ ~result.ok)
       /\ history' = IF result.ok THEN [byInsert |-> FALSE, natural |-> FALSE]
                      ELSE history

\* A graph file: what JSON.parse returns for it; hasColors tells whether the
\* file has colors.
File(vertices, edges, hasColors, colors) ==
  [vertices |-> vertices, edges |-> edges, hasColors |-> hasColors, colors |-> colors,
   shape |-> [vertices |-> "array", edges |-> "array"]]

\* A wheel: a square whose corners carry the four colors, and an uncolored hub.
WheelFile ==
  File(<< Vertex(1, 1, Pt(Px(300), Px(200))), Vertex(2, 2, Pt(Px(500), Px(200))),
          Vertex(3, 3, Pt(Px(500), Px(400))), Vertex(4, 4, Pt(Px(300), Px(400))),
          Vertex(5, Null, Pt(Px(400), Px(300))) >>,
       << <<0, 1>>, <<1, 2>>, <<2, 3>>, <<3, 0>>,
          <<4, 0>>, <<4, 1>>, <<4, 2>>, <<4, 3>> >>,
       TRUE, <<1, 2, 3, 4>>)

\* A triangle and a fourth vertex on one of its sides, saved with the fourth
\* vertex colored 3 and a palette of three colors.
ColoredFile ==
  File(<< Vertex(1, Null, Pt(Px(400), Px(240))), Vertex(2, Null, Pt(Px(460), Px(340))),
          Vertex(3, Null, Pt(Px(340), Px(340))), Vertex(4, 3, Pt(Px(500), Px(260))) >>,
       << <<0, 1>>, <<1, 2>>, <<2, 0>>, <<3, 0>>, <<3, 1>> >>,
       TRUE, <<7, 8, 9>>)

\* A triangle with a pendant fourth vertex, saved without colors.
PendantFile ==
  File(<< Vertex(1, Null, Pt(Px(400), Px(240))), Vertex(2, Null, Pt(Px(460), Px(340))),
          Vertex(3, Null, Pt(Px(340), Px(340))), Vertex(4, Null, Pt(Px(400), Px(140))) >>,
       << <<0, 1>>, <<1, 2>>, <<2, 0>>, <<3, 0>> >>,
       FALSE, <<>>)

\* A single edge: two vertices, the first colored 1, saved without a palette.
SmallFile ==
  File(<< Vertex(1, 1, Pt(Px(400), Px(240))), Vertex(2, Null, Pt(Px(460), Px(340))) >>,
       << <<0, 1>> >>,
       FALSE, <<>>)

\* A triangle whose positions are not whole numbers, its first vertex colored 2.
FineFile ==
  File(<< Vertex(1, 2, Pt(4003, 2407)), Vertex(2, Null, Pt(4608, 3402)),
          Vertex(3, Null, Pt(3395, 3409)) >>,
       << <<0, 1>>, <<1, 2>>, <<2, 0>> >>,
       TRUE, <<1, 2, 3, 4>>)

\* Files whose vertices or edges are not arrays: the key is missing (or null),
\* or it holds an object.
MalformedFiles ==
  { [PendantFile EXCEPT !.shape = shape] :
      shape \in { [vertices |-> "missing", edges |-> "array"],
                  [vertices |-> "array", edges |-> "missing"],
                  [vertices |-> "object", edges |-> "array"],
                  [vertices |-> "array", edges |-> "object"] } }

\* The files the user may pick.
Files == { WheelFile, ColoredFile, PendantFile, SmallFile, FineFile } \cup MalformedFiles

\* The number the digits ds write.
RECURSIVE DigitsValue(_)
DigitsValue(ds) ==
  IF ds = <<>> THEN 0 ELSE DigitsValue(SubSeq(ds, 1, Len(ds) - 1)) * 10 + ds[Len(ds)]

\* JSON.parse of a number or null, in units of 1 / unit.
ParseNumber(t, unit) ==
  IF t.null THEN Null
  ELSE (IF t.neg THEN -1 ELSE 1)
         * (DigitsValue(t.int) * unit
              + (IF t.frac = <<>> THEN 0 ELSE t.frac[1] * (unit \div 10)))

\* Line 437: JSON.parse of a text that saveGraph wrote.
JsonParse(text) ==
  File([k \in 1 .. Len(text.vertices) |->
          Vertex(ParseNumber(text.vertices[k].id, 1),
                 ParseNumber(text.vertices[k].color, 1),
                 Pt(ParseNumber(text.vertices[k].pos.x, Px(1)),
                    ParseNumber(text.vertices[k].pos.y, Px(1))))],
       [k \in 1 .. Len(text.edges) |->
          << ParseNumber(text.edges[k][1], 1), ParseNumber(text.edges[k][2], 1) >>],
       TRUE,
       [k \in 1 .. Len(text.colors) |-> ParseNumber(text.colors[k], 1)])

\* The download, if there is one, is among the files to pick.
SavedFiles == IF saved.exists THEN { JsonParse(saved.text) } ELSE {}

\* A validation that lets every file through.
AcceptAll(data) == TRUE

\* Lines 438-443: data.vertices && data.edges && Array.isArray(data.vertices)
\* && Array.isArray(data.edges)
Accepted(data) == data.shape.vertices = "array" /\ data.shape.edges = "array"

\* Lines 435-452: the graph set from a parsed file.
LoadedGraph(data) ==
  Graph([k \in 1 .. Len(data.vertices) |->
           Vertex(data.vertices[k].id, data.vertices[k].color, data.vertices[k].pos)],
        data.edges,
        IF data.hasColors THEN data.colors ELSE <<1, 2, 3, 4>>)

\* Lines 434-458: reader.onload on the graph prev: the graph afterwards, and
\* whether setGraph was called, which it is for an accepted file only.
loadGraphFromFile(prev, data) ==
  IF Accepted(data) THEN [graph |-> LoadedGraph(data), set |-> TRUE]
  ELSE [graph |-> prev, set |-> FALSE]

LoadFile(data) ==
  /\ graph' = loadGraphFromFile(graph, data).graph
  /\ last' = Last("load", loadGraphFromFile(graph, data).set)
  /\ history' = IF loadGraphFromFile(graph, data).set
                THEN [byInsert |-> FALSE, natural |-> FALSE]
                ELSE history

\* Key L or command "L", and a file picked: handleFileChange.
Load ==
  /\ ~crashed
  /\ \E data \in Files \cup SavedFiles : LoadFile(data)
  /\ UNCHANGED <<dimensions, warning, showManualModal, crashed, saved>>

\* The pairs of four vertices, in the order a file lists those it holds.
FourPairs == << <<0, 1>>, <<1, 2>>, <<2, 0>>, <<3, 0>>, <<3, 1>>, <<3, 2>> >>

\* Two drawings of four vertices: a triangle with a vertex to its left, and a
\* square, whose diagonals cross.
FourLayouts ==
  { << Pt(Px(400), Px(240)), Pt(Px(452), Px(330)), Pt(Px(348), Px(330)),
       Pt(Px(200), Px(300)) >>,
    << Pt(Px(300), Px(200)), Pt(Px(500), Px(400)), Pt(Px(500), Px(200)),
       Pt(Px(300), Px(400)) >> }

\* Files of four uncolored vertices with any of the edge lists over them:
\* graphs with isolated vertices, disconnected graphs, crossing graphs.
WalkFiles ==
  { File([k \in 1 .. 4 |-> Vertex(k, Null, layout[k])],
         SelectSeq(FourPairs, LAMBDA e : e \in held),
         FALSE, <<>>) :
      layout \in FourLayouts, held \in SUBSET { FourPairs[k] : k \in 1 .. Len(FourPairs) } }

\* A file with an arbitrary edge list is picked.
LoadAny ==
  /\ ~crashed
  /\ \E data \in WalkFiles : LoadFile(data)
  /\ UNCHANGED <<dimensions, warning, showManualModal, crashed, saved>>

\* Key V or command "V": saveGraph(graph.vertices, graph.edges, graph.colors).
Save ==
  /\ ~crashed
  /\ saved' = [exists |-> TRUE,
               text |-> saveGraph(graph.vertices, graph.edges, graph.colors)]
  /\ UNCHANGED <<graph, dimensions, warning, showManualModal, crashed, last, history>>

\* updateSize: the window is resized.
Resize ==
  /\ ~crashed
  /\ \E d \in DimChoices : d # dimensions /\ dimensions' = d
  /\ UNCHANGED <<graph, warning, showManualModal, crashed, last, history, saved>>

\* No insertion grows the graph beyond bound vertices.
Within(bound) == Len(graph'.vertices) > Len(graph.vertices) => Len(graph'.vertices) <= bound

Next ==
  \/ Start
  \/ AddCommand /\ Within(MaxVertices)
  \/ Random /\ Within(MaxVertices)
  \/ Redraw
  \/ Color
  \/ OpenManual
  \/ CancelManual
  \/ ManualDraw /\ Within(MaxVertices)
  \/ Resize

Spec == Init /\ [][Next]_vars

\* The graph is only built: seeded and grown by the three insertions.
NextBuild ==
  \/ Start
  \/ AddCommand /\ Within(MaxBuild)
  \/ Random /\ Within(MaxBuild)
  \/ OpenManual
  \/ CancelManual
  \/ ManualDraw /\ Within(MaxBuild)

SpecBuild == Init /\ [][NextBuild]_vars

\* The graph is seeded, loaded or grown by segment, then colored and re-laid out.
NextLayout ==
  \/ Start
  \/ Load
  \/ AddCommand /\ Within(MaxVertices)
  \/ Random /\ Within(MaxVertices)
  \/ Redraw
  \/ Color
  \/ Resize

SpecLayout == Init /\ [][NextLayout]_vars

\* The graph is seeded, grown by command and colored; it is saved and loaded.
NextFile ==
  \/ Start
  \/ AddCommand /\ Within(MaxVertices)
  \/ Color
  \/ Save
  \/ Load

SpecFile == Init /\ [][NextFile]_vars

\* Files with arbitrary edge lists are loaded and grown by random insertions,
\* which walk the periphery.
NextWalk ==
  \/ LoadAny
  \/ Random /\ Within(MaxBuild)

SpecWalk == Init /\ [][NextWalk]_vars

(***************************************************************************)
(* Planarity of insertions                                                 *)
(***************************************************************************)

\* Edges e and f properly cross in the drawing: they share no endpoint and
\* their segments intersect.
ProperlyCross(vertices, e, f) ==
  /\ {e[1], e[2]} \cap {f[1], f[2]} = {}
  /\ doLinesIntersect(At(vertices, e[1]).pos, At(vertices, e[2]).pos,
                      At(vertices, f[1]).pos, At(vertices, f[2]).pos)

CrossingFree(g) ==
  \A i \in 1 .. Len(g.edges) : \A j \in (i + 1) .. Len(g.edges) :
    ~ProperlyCross(g.vertices, g.edges[i], g.edges[j])

\* C1: a graph grown from the seed triangle by successful A and R insertions
\* alone has no two edges that properly cross at the stored positions.
C1_InsertionsStayPlanar == history.byInsert => CrossingFree(graph)

\* C1: the seed has been grown by a successful A or R insertion.
C1_Inserted == history.byInsert /\ last.op \in {"add", "random"} /\ last.ok

(***************************************************************************)
(* The fully-connected gate and the atomicity of insertions                *)
(***************************************************************************)

\* Every two vertices of the segment are joined by an edge.
PairwiseJoined(edges, segment) ==
  \A i \in 1 .. Len(segment) : \A j \in (i + 1) .. Len(segment) :
    \E k \in 1 .. Len(edges) : {edges[k][1], edges[k][2]} = {segment[i], segment[j]}

\* The updater returned the graph it was given and a message was set.
RejectedWithWarning(prev, result) ==
  /\ ~result.threw
  /\ result.graph = prev
  /\ result.warned
  /\ result.warning # ""

\* C2: whatever A command is typed, if the segment it selects is not pairwise
\* fully connected then addVertexToSegment returns null for it and the handler
\* returns the previous graph, vertices, edges and palette unchanged, and sets a
\* warning.
C2_GateRejects ==
  (Len(graph.vertices) >= 3 /\ ~PeripheryThrows(graph.vertices, graph.edges)) =>
    \A parsed \in Parses(graph, getPeriphery(graph.vertices, graph.edges)) :
      (parsed.ok /\ Len(parsed.segment) >= 2
         /\ ~PairwiseJoined(graph.edges, parsed.segment)) =>
        /\ \A pos \in { Pt(0, 0), Pt(Px(400), Px(300)) } :
             ~addVertexToSegment(graph, parsed.segment, pos).ok
        /\ RejectedWithWarning(graph,
             AddParsed(graph, parsed, dimensions.width, dimensions.height))

\* C2: an A command that selected a segment with two vertices not joined has
\* just been rejected.
C2_GateFired ==
  /\ last = Last("add", FALSE)
  /\ warning = WarnNotConnected
  /\ Len(graph.vertices) >= 4

\* The result graph is prev with one vertex appended, every vertex and every
\* edge of prev kept.
AppendedOne(prev, g) ==
  /\ Len(g.vertices) = Len(prev.vertices) + 1
  /\ SubSeq(g.vertices, 1, Len(prev.vertices)) = prev.vertices
  /\ \A k \in 1 .. Len(prev.edges) : HasEdge(g.edges, prev.edges[k][1], prev.edges[k][2])

\* The insertion attempts the state allows: every A command, every random
\* insertion, and every manual draw while the modal is open.
InsertionResults ==
  AddResults(graph, dimensions.width, dimensions.height)
    \cup RandomResults(graph, dimensions.width, dimensions.height)
    \cup IF showManualModal
         THEN ManualResults(graph, dimensions.width, dimensions.height)
         ELSE {}

\* C3: every insertion attempt either appends exactly one vertex, keeping every
\* previous vertex and edge, or returns the previous graph and reports a
\* warning.
C3_InsertionAtomic ==
  \A result \in InsertionResults :
    \/ ~result.threw /\ AppendedOne(graph, result.graph)
    \/ RejectedWithWarning(graph, result)

\* C3: a random insertion ran on a graph without a seed; nothing was committed
\* and no warning is on display.
C3_SilentAttempt ==
  /\ last = Last("random", FALSE)
  /\ Len(graph.vertices) < 3
  /\ warning = ""

(***************************************************************************)
(* Re-layout and the edge set                                              *)
(***************************************************************************)

\* The edges as unordered pairs.
Pairs(edges) == { {edges[k][1], edges[k][2]} : k \in 1 .. Len(edges) }

\* C4: for a graph of at least 3 vertices, the edges redrawGraph returns
\* include, as unordered pairs, every edge of the graph it was given.
C4_RedrawKeepsEdges ==
  Len(graph.vertices) >= 3 =>
    \A result \in RedrawResults(graph, dimensions.width, dimensions.height) :
      ~result.threw => Pairs(graph.edges) \subseteq Pairs(result.graph.edges)

\* C4: a graph has been re-laid out whose fourth vertex the placement loop
\* skipped, so that the edge of that vertex came back in the final pass only.
C4_RestoredByFinalPass ==
  /\ last = Last("redraw", TRUE)
  /\ Len(graph.vertices) = 4
  /\ At(graph.vertices, 3).pos = Pt(0, 0)
  /\ Len(originalConnections(graph.edges, 3)) = 1

\* C5: for a graph grown from the seed by insertions in which interior repair
\* added no edge, the edges redrawGraph returns are, as unordered pairs,
\* exactly the edges of the graph.
C5_RedrawInventsNoEdge ==
  history.natural =>
    \A result \in RedrawResults(graph, dimensions.width, dimensions.height) :
      ~result.threw => Pairs(result.graph.edges) = Pairs(graph.edges)

\* C5: a graph grown by an insertion without interior repair, which
\* redrawGraph lays out.
C5_NaturalGraph ==
  /\ history.natural
  /\ Len(graph.vertices) >= 4
  /\ \E result \in RedrawResults(graph, dimensions.width, dimensions.height) : result.ok

(***************************************************************************)
(* The natural-construction rule                                           *)
(***************************************************************************)

\* The vertices of attach are those of a run of consecutive positions of the
\* periphery, wrapping around its end.
CyclicRun(periph, attach) ==
  /\ Len(attach) <= Len(periph)
  /\ \E start \in 1 .. Len(periph) :
       { attach[k] : k \in 1 .. Len(attach) }
         = { periph[((start + k - 2) % Len(periph)) + 1] : k \in 1 .. Len(attach) }

\* C6: every vertex an A command, a random insertion or a manual draw adds is
\* attached to at least 2 vertices that form a cyclically consecutive run of
\* the periphery computed just before the insertion and that are pairwise
\* joined by edges.
C6_AttachesToJoinedRun ==
  \A result \in InsertionResults :
    result.ok =>
      /\ Len(result.attach) >= 2
      /\ CyclicRun(getPeriphery(graph.vertices, graph.edges), result.attach)
      /\ PairwiseJoined(graph.edges, result.attach)

\* C6: the modal is open on a graph where a manual draw adds a vertex between
\* two periphery vertices that no edge joins.
C6_ManualBetweenUnjoined ==
  /\ showManualModal
  /\ \E result \in ManualResults(graph, dimensions.width, dimensions.height) :
       result.ok /\ ~PairwiseJoined(graph.edges, result.attach)

(***************************************************************************)
(* The seed                                                                *)
(***************************************************************************)

\* C7: after key S, whatever the state before, the graph has exactly the
\* vertices 1, 2, 3, all uncolored, exactly the edges {0,1}, {1,2}, {2,0},
\* the palette [1,2,3,4], and getPeriphery returns all three indices.
C7_StartSeedsTriangle ==
  last.op = "start" =>
    /\ Len(graph.vertices) = 3
    /\ \A k \in 1 .. 3 : graph.vertices[k].id = k /\ graph.vertices[k].color = Null
    /\ Len(graph.edges) = 3
    /\ Pairs(graph.edges) = { {0, 1}, {1, 2}, {2, 0} }
    /\ graph.colors = <<1, 2, 3, 4>>
    /\ ~PeripheryThrows(graph.vertices, graph.edges)
    /\ LET periph == getPeriphery(graph.vertices, graph.edges)
       IN  Len(periph) = 3 /\ { periph[k] : k \in 1 .. 3 } = {0, 1, 2}

\* C7: key S was pressed in the small window, after the window was resized.
C7_StartedAfterResize ==
  /\ last = Last("start", TRUE)
  /\ dimensions.width = 120

(***************************************************************************)
(* Coloring                                                                *)
(***************************************************************************)

\* The colors carried by the vertices an edge joins to vertex idx.
NeighborColors(g, idx) ==
  { At(g.vertices, i).color :
      i \in { j \in Indices(g.vertices) : {idx, j} \in Pairs(g.edges) } } \ {Null}

\* C8: the color action on an uncolored last vertex gives it the smallest
\* index of 1..|palette| that no direct neighbor carries, which differs from
\* the color of every neighbor; it gives color 1 when the neighbors carry
\* every index of 1..|palette|.
C8_SmallestFreeColor ==
  (Len(graph.vertices) > 0 /\ At(graph.vertices, Len(graph.vertices) - 1).color = Null) =>
    LET idx == Len(graph.vertices) - 1
        result == ColorResult(graph)
        color == At(result.graph.vertices, idx).color
        used == NeighborColors(graph, idx)
    IN  ~result.threw =>
          /\ result.ok
          /\ result.graph = [graph EXCEPT !.vertices[idx + 1].color = color]
          /\ IF \E c \in 1 .. Len(graph.colors) : c \notin used
             THEN /\ color \in 1 .. Len(graph.colors)
                  /\ color \notin used
                  /\ \A c \in 1 .. (color - 1) : c \in used
             ELSE color = 1

\* C8: the hub of the wheel was colored while its four neighbors carried the
\* colors 1 to 4, and got color 1.
C8_FallbackColor ==
  /\ last = Last("color", TRUE)
  /\ Len(graph.vertices) = 5
  /\ At(graph.vertices, 4).color = 1
  /\ NeighborColors(graph, 4) = 1 .. 4

\* C9: the color action on a last vertex that has a color returns the graph
\* unchanged, colors, positions, edges and palette, and sets no warning; so
\* does every repetition, which starts from the same graph.
C9_ColorAgainIsNoOp ==
  (Len(graph.vertices) > 0
     /\ At(graph.vertices, Len(graph.vertices) - 1).color \in 1 .. 4) =>
    LET result == ColorResult(graph)
    IN  /\ ~result.threw
        /\ result.graph = graph
        /\ ~result.warned
        /\ ColorResult(result.graph) = result

\* C9: the color action has just run on a last vertex that kept the color 3 it
\* was loaded with.
C9_ColoredAgain ==
  /\ last = Last("color", FALSE)
  /\ Len(graph.vertices) = 4
  /\ At(graph.vertices, 3).color = 3

(***************************************************************************)
(* Random insertion                                                        *)
(***************************************************************************)

\* No run of 2 to min(|periph|, 5) consecutive periphery vertices, from any
\* start offset, is both pairwise joined and given a position.
Exhausted(g, periph, width, height) ==
  \A segmentLength \in 2 .. Min(Len(periph), 5) : \A startIdx \in 0 .. (Len(periph) - 1) :
    LET run == [k \in 1 .. segmentLength |-> periph[((startIdx + k - 1) % Len(periph)) + 1]]
    IN  ~(/\ PairwiseJoined(g.edges, run)
          /\ findValidPosition(g.vertices, g.edges, run, width, height).found)

C11_SaveLoadRoundTrip ==
  LET data == JsonParse(saveGraph(graph.vertices, graph.edges, graph.colors))
  IN  /\ Accepted(data)
      /\ LoadedGraph(data).vertices = graph.vertices
      /\ LoadedGraph(data).edges = graph.edges
      /\ LoadedGraph(data).colors = graph.colors

\* C11: a download was loaded back: a graph grown by command, with a colored
\* vertex, an uncolored one and a position that is not a whole number.
C11_LoadedBack ==
  /\ last = Last("load", TRUE)
  /\ saved.exists
  /\ graph = LoadedGraph(JsonParse(saved.text))
  /\ graph \notin { LoadedGraph(data) : data \in Files }
  /\ \E k \in 1 .. Len(graph.vertices) : graph.vertices[k].color # Null
  /\ \E k \in 1 .. Len(graph.vertices) : graph.vertices[k].color = Null
  /\ \E k \in 1 .. Len(graph.vertices) : graph.vertices[k].pos.x % Px(1) # 0

\* C12: loading data in which vertices or edges is missing or is not an array
\* leaves the graph in memory as it was.
C12_MalformedLoadKeepsGraph ==
  \A data \in Files \cup SavedFiles :
    (data.shape.vertices # "array" \/ data.shape.edges # "array") =>
      /\ loadGraphFromFile(graph, data).graph = graph
      /\ ~loadGraphFromFile(graph, data).set

\* C12: a load has just been turned down while a graph grown by command was in
\* memory.
C12_LoadTurnedDown ==
  /\ last = Last("load", FALSE)
  /\ Len(graph.vertices) = 4
  /\ history.byInsert

(***************************************************************************)
(* Graphs without a seed                                                   *)
(***************************************************************************)

\* C13: on a graph of fewer than 3 vertices the A command, the random
\* insertion, the re-layout and the color action all leave the graph unchanged.
C13_NoSeedNoChange ==
  Len(graph.vertices) < 3 =>
    \A result \in AddResults(graph, dimensions.width, dimensions.height)
                    \cup RandomResults(graph, dimensions.width, dimensions.height)
                    \cup RedrawResults(graph, dimensions.width, dimensions.height)
                    \cup { ColorResult(graph) } :
      ~result.threw /\ result.graph = graph

\* C13: the color action has just colored the last vertex of a graph of two
\* vertices.
C13_ColoredWithoutSeed ==
  /\ last = Last("color", TRUE)
  /\ Len(graph.vertices) = 2
  /\ graph.vertices[2].color # Null

(***************************************************************************)
(* Well-formed graphs                                                      *)
(***************************************************************************)

\* What the handlers that change a seeded graph may return: the insertions,
\* the re-layout and the color action.
HandlerResults ==
  InsertionResults
    \cup RedrawResults(graph, dimensions.width, dimensions.height)
    \cup { ColorResult(graph) }

\* C14: vertex ids are pairwise distinct; no insertion, re-layout or color
\* action changes the id of an existing vertex; and a newly inserted vertex gets
\* an id greater than every id present before.
C14_IdsStableAndFresh ==
  /\ \A j, k \in 1 .. Len(graph.vertices) :
       j # k => graph.vertices[j].id # graph.vertices[k].id
  /\ \A result \in HandlerResults :
       ~result.threw =>
         /\ Len(result.graph.vertices) >= Len(graph.vertices)
         /\ \A k \in 1 .. Len(graph.vertices) :
              result.graph.vertices[k].id = graph.vertices[k].id
         /\ \A n \in (Len(graph.vertices) + 1) .. Len(result.graph.vertices) :
              \A k \in 1 .. Len(graph.vertices) :
                result.graph.vertices[n].id > graph.vertices[k].id

\* C14: a manual draw has just added the fourth vertex, with id 4.
C14_FreshIdGiven ==
  /\ last = Last("manual", TRUE)
  /\ Len(graph.vertices) = 4
  /\ graph.vertices[4].id = 4

\* C15: every edge is a pair of two different indices of 0 .. |vertices| - 1,
\* and no unordered pair of vertices is in the edge list more than once.
C15_EdgesWellFormed ==
  /\ \A k \in 1 .. Len(graph.edges) :
       /\ graph.edges[k][1] # graph.edges[k][2]
       /\ graph.edges[k][1] \in 0 .. (Len(graph.vertices) - 1)
       /\ graph.edges[k][2] \in 0 .. (Len(graph.vertices) - 1)
  /\ \A j, k \in 1 .. Len(graph.edges) :
       j # k => {graph.edges[j][1], graph.edges[j][2]} # {graph.edges[k][1], graph.edges[k][2]}

\* C15: a re-layout has just returned a graph of four vertices with all six
\* edges.
C15_RedrawnComplete ==
  /\ last = Last("redraw", TRUE)
  /\ Len(graph.vertices) = 4
  /\ Len(graph.edges) = 6

(***************************************************************************)
(* The A command                                                           *)
(***************************************************************************)

\* The periphery ranks a command selects: those of the range a-b, or those
\* listed, that the periphery has.
SelectedRanks(cmd, n) ==
  { r \in 1 .. n :
      IF cmd.range THEN cmd.nums[1] <= r /\ r <= cmd.nums[2]
      ELSE \E k \in 1 .. Len(cmd.nums) : cmd.nums[k] = r }

\* The ranks are those of a run of successive positions of the cyclic order
\* 1, 2, ..., n, 1, ...
CyclicallyConsecutive(ranks, n) ==
  \E start \in 1 .. n :
    ranks = { ((start + k - 1) % n) + 1 : k \in 0 .. (Cardinality(ranks) - 1) }

\* C16: parseAddCommand returns a segment exactly when the ranks the command
\* selects are at least 2 and consecutive in the cyclic order of the periphery,
\* and then the segment is made of the vertices at those ranks; for every other
\* selection it returns null and the A handler leaves the graph unchanged.
C16_SegmentIffCyclicRun ==
  (Len(graph.vertices) >= 3 /\ ~PeripheryThrows(graph.vertices, graph.edges)) =>
    LET periph == getPeriphery(graph.vertices, graph.edges)
    IN  \A cmd \in Commands(graph) :
          LET ranks == SelectedRanks(cmd, Len(periph))
              parsed == parseAddCommand(cmd, periph)
          IN  /\ parsed.ok <=>
                   (Cardinality(ranks) >= 2 /\ CyclicallyConsecutive(ranks, Len(periph)))
              /\ parsed.ok =>
                   /\ Len(parsed.segment) = Cardinality(ranks)
                   /\ { parsed.segment[k] : k \in 1 .. Len(parsed.segment) }
                        = { periph[r] : r \in ranks }
              /\ ~parsed.ok =>
                   AddParsed(graph, parsed, dimensions.width, dimensions.height).graph = graph

\* C16: the command "A, 1,3" on the seed, whose ranks 3 and 1 wrap around the
\* end of the periphery, has just joined the fourth vertex to the first and the
\* third.
C16_WrapAroundAccepted ==
  /\ last = Last("add", TRUE)
  /\ Len(graph.vertices) = 4
  /\ Neighbors(graph.edges, 3) = {0, 2}

(***************************************************************************)
(* The periphery walk                                                      *)
(***************************************************************************)

\* Vertex i is leftmost: no vertex has a smaller x, nor the same x and a
\* smaller y.
IsLeftmost(vertices, i) ==
  \A k \in 1 .. Len(vertices) :
    \/ vertices[k].pos.x > At(vertices, i).pos.x
    \/ vertices[k].pos.x = At(vertices, i).pos.x /\ vertices[k].pos.y >= At(vertices, i).pos.y

\* No index is twice in the periphery.
NoRepeat(periph) ==
  \A j, k \in 1 .. Len(periph) : j # k => periph[j] # periph[k]

\* Each entry of the periphery is joined by an edge to the entry after it, the
\* last one to the first.
ClosedWalk(edges, periph) ==
  \A k \in 1 .. Len(periph) :
    {periph[k], periph[(k % Len(periph)) + 1]} \in Pairs(edges)

\* C17 as stated: for a graph grown from the seed by successful insertions,
\* getPeriphery returns a simple cycle that starts at the leftmost vertex,
\* holds no index twice, and joins each entry to the next by an edge, the last
\* to the first.
C17_StartsAtLeftmost ==
  (history.byInsert /\ Len(graph.vertices) >= 3) =>
    /\ ~PeripheryThrows(graph.vertices, graph.edges)
    /\ LET periph == getPeriphery(graph.vertices, graph.edges)
       IN  /\ Len(periph) >= 3
           /\ IsLeftmost(graph.vertices, periph[1])
           /\ NoRepeat(periph)
           /\ ClosedWalk(graph.edges, periph)

\* C17: for a graph grown from the seed by successful insertions,
\* getPeriphery returns a simple cycle: it holds no index twice and joins each
\* entry to the next by an edge, the last to the first; with four vertices or
\* more it starts at the leftmost vertex, with exactly three it lists them in
\* input order.
C17_PeripheryIsSimpleCycle ==
  (history.byInsert /\ Len(graph.vertices) >= 3) =>
    /\ ~PeripheryThrows(graph.vertices, graph.edges)
    /\ LET periph == getPeriphery(graph.vertices, graph.edges)
       IN  /\ Len(periph) >= 3
           /\ NoRepeat(periph)
           /\ ClosedWalk(graph.edges, periph)
           /\ Len(graph.vertices) >= 4 => IsLeftmost(graph.vertices, periph[1])
           /\ Len(graph.vertices) = 3 => periph = <<0, 1, 2>>

\* A grown graph whose walk leaves a vertex inside: the periphery is shorter
\* than the vertex list and does not start at index 0.
C17_WalkedAroundInterior ==
  /\ history.byInsert
  /\ Len(graph.vertices) >= 5
  /\ Len(getPeriphery(graph.vertices, graph.edges)) < Len(graph.vertices)
  /\ getPeriphery(graph.vertices, graph.edges)[1] # 0

(***************************************************************************)
(* Planarity of manual draws                                               *)
(***************************************************************************)

\* The edges the insertion appended to prev properly cross no edge of prev at
\* the positions of the result.
NewEdgesCrossNone(prev, g) ==
  \A i \in (Len(prev.edges) + 1) .. Len(g.edges) : \A j \in 1 .. Len(prev.edges) :
    ~ProperlyCross(g.vertices, g.edges[i], g.edges[j])

\* C18: after every successful manual draw, whether the position came from the
\* perpendicular trials or from the random placement, neither of the two new
\* edges properly crosses an edge already in the graph.
C18_ManualDrawCrossesNone ==
  showManualModal =>
    \A result \in ManualResults(graph, dimensions.width, dimensions.height) :
      (~result.threw /\ Len(result.graph.vertices) = Len(graph.vertices) + 1) =>
        NewEdgesCrossNone(graph, result.graph)

\* C18: a manual draw has just appended a vertex whose edges cross an edge
\* that was there before.
C18_ManualDrawCrossed ==
  /\ last.op = "manual"
  /\ last.ok
  /\ \E i \in (Len(graph.edges) - 1) .. Len(graph.edges) : \E j \in 1 .. (Len(graph.edges) - 2) :
       ProperlyCross(graph.vertices, graph.edges[i], graph.edges[j])

(***************************************************************************)
(* Planarity of the relayout                                               *)
(***************************************************************************)

\* C19: the relayout of a graph grown from the seed by insertions is a planar
\* drawing: at the new positions no two edges of the returned edge list
\* properly cross, whichever way each vertex was placed.
C19_RedrawIsPlanar ==
  (history.byInsert /\ Len(graph.vertices) >= 3) =>
    \A result \in RedrawResults(graph, dimensions.width, dimensions.height) :
      ~result.threw => CrossingFree(result.graph)

\* C19: the seed with a fourth vertex has just been redrawn: the fourth vertex
\* is joined to all three seed vertices from outside the triangle and two
\* edges properly cross.
C19_RedrawnWithCrossing ==
  /\ last = Last("redraw", TRUE)
  /\ Len(graph.vertices) = 4
  /\ SubSeq(graph.vertices, 1, 3) = SeedGraph(dimensions.width, dimensions.height).vertices
  /\ \A k \in 1 .. 4 : graph.vertices[k].color = Null
  /\ Len(graph.edges) = 6
  /\ ~CrossingFree(graph)

(***************************************************************************)
(* The placement search returns the first valid candidate                  *)
(***************************************************************************)

\* The candidate lies within the bounds with a margin of 30 on every side.
WithinMargin(candidate, width, height) ==
  /\ Px(30) <= candidate.x /\ candidate.x <= Px(width) - Px(30)
  /\ Px(30) <= candidate.y /\ candidate.y <= Px(height) - Px(30)

\* The candidate is at distance at least 44 from every vertex.
KeepsDistance(vertices, candidate) ==
  \A k \in 1 .. Len(vertices) :
    (candidate.x - vertices[k].pos.x) * (candidate.x - vertices[k].pos.x)
      + (candidate.y - vertices[k].pos.y) * (candidate.y - vertices[k].pos.y)
      >= Px(44) * Px(44)

\* No line from the candidate to a vertex of the segment crosses an edge that
\* has no endpoint in the segment.
CrossesNoOuterEdge(vertices, edges, segment, candidate) ==
  \A k \in 1 .. Len(edges) :
    ({edges[k][1], edges[k][2]} \cap { segment[s] : s \in 1 .. Len(segment) } = {}) =>
      \A s \in 1 .. Len(segment) :
        ~doLinesIntersect(At(vertices, segment[s]).pos, candidate,
                          At(vertices, edges[k][1]).pos, At(vertices, edges[k][2]).pos)

PassesAllChecks(g, segment, width, height, candidate) ==
  /\ WithinMargin(candidate, width, height)
  /\ KeepsDistance(g.vertices, candidate)
  /\ CrossesNoOuterEdge(g.vertices, g.edges, segment, candidate)

\* The segments findValidPosition is asked about: those of the A commands, and
\* the runs of the periphery of length 0 and 1.
AskedSegments(g) ==
  IF Len(g.vertices) < 3 \/ PeripheryThrows(g.vertices, g.edges) THEN {}
  ELSE LET periph == getPeriphery(g.vertices, g.edges)
       IN  { parsed.segment : parsed \in { q \in Parses(g, periph) : q.ok } }
             \cup { SegmentAt(periph, startIdx, segLen) :
                      startIdx \in 0 .. (Len(periph) - 1), segLen \in 0 .. 1 }

\* The result is none and no trial passes, or it is the trial that passes
\* with every trial before it failing.
FirstPassing(g, segment, width, height, trials, result) ==
  \/ /\ ~result.found
     /\ \A k \in 1 .. Len(trials) : ~PassesAllChecks(g, segment, width, height, trials[k])
  \/ /\ result.found
     /\ \E k \in 1 .. Len(trials) :
          /\ result.pos = trials[k]
          /\ PassesAllChecks(g, segment, width, height, trials[k])
          /\ \A j \in 1 .. (k - 1) :
               ~PassesAllChecks(g, segment, width, height, trials[j])

Turn(a, b, p) == (b.x - a.x) * (p.y - a.y) - (b.y - a.y) * (p.x - a.x)

\* p lies inside or on the triangle a b c: it is on no two opposite sides of
\* the three side lines.
InOrOnTriangle(p, a, b, c) ==
  LET turns == { Turn(a, b, p), Turn(b, c, p), Turn(c, a, p) }
  IN  ~ ((\E t \in turns : t > 0) /\ (\E t \in turns : t < 0))

\* The results of the insertions with a segment the state allows: every A
\* command and every random insertion that appended a vertex.
SegmentInserts ==
  { result \in AddResults(graph, dimensions.width, dimensions.height)
                 \cup RandomResults(graph, dimensions.width, dimensions.height) :
      result.ok }

\* The vertex v of prev is enclosed by the triangle of the segment pair at
\* position i and the new vertex.
Enclosed(prev, segment, i, newPos, v) ==
  LET a == segment[i]
      b == segment[(i % Len(segment)) + 1]
  IN  /\ v # a /\ v # b
      /\ InOrOnTriangle(At(prev.vertices, v).pos,
                        At(prev.vertices, a).pos, At(prev.vertices, b).pos, newPos)

\* C21: after a successful insert with a segment, each old vertex inside or on
\* the triangle of a cyclically consecutive pair of the segment and the new
\* vertex is joined to the pair and to the new vertex; and each edge added
\* besides those from the new vertex to the segment joins such an enclosed
\* vertex to a corner of a triangle that encloses it.
C21_InteriorRepaired ==
  \A result \in SegmentInserts :
    LET segment == result.attach
        g == result.graph
        newIdx == Len(graph.vertices)
        newPos == At(g.vertices, newIdx).pos
    IN  /\ \A i \in 1 .. Len(segment) : \A v \in Indices(graph.vertices) :
             Enclosed(graph, segment, i, newPos, v) =>
               /\ HasEdge(g.edges, v, segment[i])
               /\ HasEdge(g.edges, v, segment[(i % Len(segment)) + 1])
               /\ HasEdge(g.edges, v, newIdx)
        /\ \A e \in Pairs(g.edges) \ Pairs(graph.edges) :
             \/ \E s \in 1 .. Len(segment) : e = {newIdx, segment[s]}
             \/ \E i \in 1 .. Len(segment) : \E v \in Indices(graph.vertices) :
                  /\ Enclosed(graph, segment, i, newPos, v)
                  /\ v \in e
                  /\ e \subseteq {v, newIdx, segment[i], segment[(i % Len(segment)) + 1]}

\* C21: an insertion the state allows encloses an old vertex outside its
\* segment, and its result has an edge to that vertex that the graph before
\* and the edges to the segment do not hold.
C21_EnclosedVertexJoined ==
  /\ history.byInsert
  /\ \E result \in SegmentInserts :
       \E i \in 1 .. Len(result.attach) : \E v \in Indices(graph.vertices) :
         /\ ~Includes(result.attach, v)
         /\ Enclosed(graph, result.attach, i,
                     At(result.graph.vertices, Len(graph.vertices)).pos, v)
         /\ \E e \in Pairs(result.graph.edges) \ Pairs(graph.edges) : v \in e

(***************************************************************************)
(* The new vertex is joined to its segment                                 *)
(***************************************************************************)

\* C22: after a successful insert with a segment, the new vertex, at the index
\* that was the number of vertices, is joined by an edge to every vertex of
\* the segment; on the seed triangle the whole periphery can be the segment,
\* and then the new vertex has id 4 and is joined to all three seed vertices.
C22_NewVertexJoinsSegment ==
  /\ \A result \in SegmentInserts :
       /\ Len(result.graph.vertices) = Len(graph.vertices) + 1
       /\ \A s \in 1 .. Len(result.attach) :
            {Len(graph.vertices), result.attach[s]} \in Pairs(result.graph.edges)
  /\ graph = SeedGraph(dimensions.width, dimensions.height) =>
       \E result \in SegmentInserts :
         /\ result.attach = getPeriphery(graph.vertices, graph.edges)
         /\ Len(result.attach) = 3
         /\ At(result.graph.vertices, 3).id = 4
         /\ \A i \in 0 .. 2 : {3, i} \in Pairs(result.graph.edges)

\* C22: an A command on the seed triangle has just added vertex 4, joined to
\* all three seed vertices.
C22_FourthJoinedToSeed ==
  /\ last = Last("add", TRUE)
  /\ Len(graph.vertices) = 4
  /\ At(graph.vertices, 3).id = 4
  /\ SubSeq(graph.vertices, 1, 3) = SeedGraph(dimensions.width, dimensions.height).vertices
  /\ \A i \in 0 .. 2 : {3, i} \in Pairs(graph.edges)

(***************************************************************************)
(* Random insertion                                                        *)
(***************************************************************************)

\* The cyclically consecutive runs of k periphery positions, 2 <= k <=
\* min(|periphery|, 5), that are pairwise joined and for which
\* findValidPosition returns a position.
UsableRuns(g, periph, width, height) ==
  { run \in { [j \in 1 .. k |-> periph[((start + j - 2) % Len(periph)) + 1]] :
                start \in 1 .. Len(periph),
                k \in 2 .. (IF Len(periph) < 5 THEN Len(periph) ELSE 5) } :
      /\ PairwiseJoined(g.edges, run)
      /\ findValidPosition(g.vertices, g.edges, run, width, height).found }

\* C23: random insertion succeeds exactly if some cyclically consecutive run
\* of 2 to min(|periphery|, 5) periphery positions is fully connected and has
\* a position; the shuffles decide neither success nor failure; a failure
\* returns the graph unchanged; and the segment of a success is such a run.
C23_RandomSucceedsIffRun ==
  (Len(graph.vertices) >= 3 /\ ~PeripheryThrows(graph.vertices, graph.edges)) =>
    \A result \in RandomResults(graph, dimensions.width, dimensions.height) :
      /\ result.ok <=>
           UsableRuns(graph, getPeriphery(graph.vertices, graph.edges),
                      dimensions.width, dimensions.height) # {}
      /\ result.ok =>
           /\ Len(result.graph.vertices) = Len(graph.vertices) + 1
           /\ result.attach \in
                UsableRuns(graph, getPeriphery(graph.vertices, graph.edges),
                           dimensions.width, dimensions.height)
      /\ ~result.ok => result.graph = graph

\* C23: a random insertion has just succeeded, and another can succeed with
\* different segments depending on the shuffle.
C23_ShuffleChoosesSegment ==
  /\ last = Last("random", TRUE)
  /\ Cardinality({ result.attach :
                     result \in RandomResults(graph, dimensions.width,
                                              dimensions.height) }) >= 2
  /\ \A result \in RandomResults(graph, dimensions.width, dimensions.height) : result.ok

(***************************************************************************)
(* What the relayout leaves alone                                          *)
(***************************************************************************)

\* The triangle of radius min(w, h) / 10 around the centre of the bounds, its
\* first corner straight above the centre.
OnCentredTriangle(vertices, w, h) ==
  LET R == (Px(IF w < h THEN w ELSE h)) \div 10
      c == Pt(Px(w) \div 2, Px(h) \div 2)
  IN  /\ vertices[1].pos = Pt(c.x, c.y - R)
      /\ vertices[2].pos.y = c.y + R \div 2
      /\ vertices[3].pos.y = c.y + R \div 2
      /\ vertices[2].pos.x - c.x = c.x - vertices[3].pos.x
      /\ \A k \in 2 .. 3 :
           Abs((vertices[k].pos.x - c.x) * (vertices[k].pos.x - c.x)
                 + (vertices[k].pos.y - c.y) * (vertices[k].pos.y - c.y) - R * R)
             <= 2 * R

\* The relayout kept the number and order of the vertices, every id, every
\* color and the palette, and put the first three vertices on the triangle.
KeepsVertexData(prev, g, w, h) ==
  /\ Len(g.vertices) = Len(prev.vertices)
  /\ \A k \in 1 .. Len(prev.vertices) :
       /\ g.vertices[k].id = prev.vertices[k].id
       /\ g.vertices[k].color = prev.vertices[k].color
  /\ g.colors = prev.colors
  /\ OnCentredTriangle(g.vertices, w, h)

\* C24: the relayout changes positions only: the number and order of the
\* vertices, every id, every color and the palette are as before, the first
\* three vertices lie on the triangle centred in the bounds, and the edges are
\* those of before.
C24_RedrawChangesPositionsOnly ==
  \A result \in RedrawResults(graph, dimensions.width, dimensions.height) :
    result.ok =>
      /\ KeepsVertexData(graph, result.graph, dimensions.width, dimensions.height)
      /\ Pairs(result.graph.edges) = Pairs(graph.edges)

\* The part of C24 about the vertices and the palette.
C24_RedrawKeepsVertexData ==
  \A result \in RedrawResults(graph, dimensions.width, dimensions.height) :
    result.ok =>
      KeepsVertexData(graph, result.graph, dimensions.width, dimensions.height)

(***************************************************************************)
(* Termination of the periphery walk                                       *)
(***************************************************************************)

ValidEdges(g) ==
  \A k \in 1 .. Len(g.edges) : \A j \in 1 .. 2 :
    g.edges[k][j] \in 0 .. (Len(g.vertices) - 1)

\* C25: on a graph of four or more vertices whose edges name valid indices,
\* whatever the edge list, the periphery walk ends without an error and
\* returns between 1 and |vertices| indices: it starts at the leftmost vertex
\* and stops when it is back there or has collected |vertices| indices.
C25_WalkTerminates ==
  (Len(graph.vertices) >= 4 /\ ValidEdges(graph)) =>
    IF PeripheryThrows(graph.vertices, graph.edges) THEN FALSE
    ELSE LET periph == getPeriphery(graph.vertices, graph.edges)
         IN  /\ Len(periph) >= 1
             /\ Len(periph) <= Len(graph.vertices)
             /\ IsLeftmost(graph.vertices, periph[1])
             /\ \A k \in 2 .. Len(periph) : periph[k] # periph[1]

\* The part of C25 that holds: the same, for the graphs whose leftmost vertex
\* has a neighbor.
C25_WalkTerminatesFromJoinedStart ==
  (Len(graph.vertices) >= 4 /\ ValidEdges(graph)
     /\ ~PeripheryThrows(graph.vertices, graph.edges)) =>
    LET periph == getPeriphery(graph.vertices, graph.edges)
    IN  /\ Len(periph) >= 1
        /\ Len(periph) <= Len(graph.vertices)
        /\ IsLeftmost(graph.vertices, periph[1])
        /\ \A k \in 2 .. Len(periph) : periph[k] # periph[1]

\* C25: a random insertion on a loaded graph whose leftmost vertex has no
\* neighbor has just thrown.
C25_WalkThrew ==
  /\ crashed
  /\ last.op = "random"
  /\ Len(graph.vertices) = 4
  /\ ValidEdges(graph)
  /\ \E i \in 0 .. 3 :
       /\ IsLeftmost(graph.vertices, i)
       /\ \A k \in 1 .. Len(graph.edges) : i \notin {graph.edges[k][1], graph.edges[k][2]}

(***************************************************************************)
(* Proper coloring                                                         *)
(***************************************************************************)

\* No edge joins two vertices that carry the same color.
ProperlyColored(g) ==
  \A k \in 1 .. Len(g.edges) :
    LET a == At(g.vertices, g.edges[k][1]).color
        b == At(g.vertices, g.edges[k][2]).color
    IN  g.edges[k][1] # g.edges[k][2] /\ a # Null /\ b # Null => a # b

\* A color was given to a vertex whose neighbors carry every color of the
\* palette: the fallback of colorVertex.
FallbackUsed(g) ==
  \E i \in Indices(g.vertices) :
    /\ At(g.vertices, i).color # Null
    /\ \A c \in 1 .. Len(g.colors) : c \in NeighborColors(g, i)

\* C26: in every state reached from the start by insertions, random
\* insertions, manual draws, color actions and relayouts, with no color given
\* by the palette-exhausted fallback, no two adjacent vertices carry the same
\* color, pairs that became adjacent after both were colored included.
C26_AdjacentColorsDiffer ==
  (Len(graph.vertices) >= 3 /\ ~FallbackUsed(graph)) => ProperlyColored(graph)

\* C26: a relayout has just joined two vertices that carry the same color.
C26_RedrawJoinedSameColor ==
  /\ last = Last("redraw", TRUE)
  /\ ~FallbackUsed(graph)
  /\ ~ProperlyColored(graph)

(***************************************************************************)
(* Only the last vertex is ever colored                                    *)
(***************************************************************************)

\* A step that is not a start keeps every vertex, changes the color of none
\* that has one, and gives a color to none but an uncolored vertex at the last
\* index.
ColorsOnlyLast ==
  last' # Last("start", TRUE) =>
    /\ Len(graph'.vertices) >= Len(graph.vertices)
    /\ \A k \in 1 .. Len(graph.vertices) :
         \/ graph'.vertices[k].color = graph.vertices[k].color
         \/ /\ k = Len(graph.vertices)
            /\ graph.vertices[k].color = Null
            /\ Len(graph'.vertices) = Len(graph.vertices)

\* C27: a color is only ever assigned to the vertex at the last index: a
\* vertex uncolored when the next one is inserted stays uncolored, the seed
\* vertices at index 0 and 1 are never colored, and a color once assigned
\* never changes under insertions, random insertions, manual draws, color
\* actions and relayouts.
C27_OnlyLastVertexColored ==
  /\ [][ColorsOnlyLast]_vars
  /\ [](\A k \in 1 .. 2 : k <= Len(graph.vertices) => graph.vertices[k].color = Null)

\* C27: two vertices were colored, each while it was the last one, and a
\* vertex inserted between the two color actions; the seed vertices before
\* them are uncolored.
C27_ColoredInTurn ==
  /\ Len(graph.vertices) = 4
  /\ graph.vertices[3].color # Null
  /\ graph.vertices[4].color # Null
  /\ last.op \in {"redraw", "manual", "add", "random"}

(***************************************************************************)
(* The relayout skips no vertex of a built graph                           *)
(***************************************************************************)

\* The vertices of smaller index that vertex i is joined to.
LowerNeighbors(g, i) == { j \in 0 .. (i - 1) : {i, j} \in Pairs(g.edges) }

\* C28: in a graph built from the start by A commands, random insertions and
\* manual draws, each vertex at index 3 or higher has two or more neighbors of
\* smaller index; so redrawGraph passes its guard on originalConnections for
\* every vertex, skipping none, and returns a position for every vertex, none
\* left at the temporary (0, 0).
C28_RedrawSkipsNone ==
  Len(graph.vertices) >= 3 =>
    /\ \A i \in 3 .. (Len(graph.vertices) - 1) :
         /\ Cardinality(LowerNeighbors(graph, i)) >= 2
         /\ Len(originalConnections(graph.edges, i)) >= 2
    /\ \A result \in RedrawResults(graph, dimensions.width, dimensions.height) :
         /\ ~result.threw
         /\ Len(result.graph.vertices) = Len(graph.vertices)
         /\ \A k \in 1 .. Len(result.graph.vertices) :
              result.graph.vertices[k].pos # Pt(0, 0)

\* C28: a graph of five vertices whose last vertex came from a manual draw.
C28_BuiltWithManualDraw ==
  /\ last = Last("manual", TRUE)
  /\ Len(graph.vertices) = 5
  /\ Cardinality(LowerNeighbors(graph, 4)) = 2

(***************************************************************************)
(* The graph only grows                                                    *)
(***************************************************************************)

\* A step that is not a start removes no vertex and no edge.
GrowsOnly ==
  last' # Last("start", TRUE) =>
    /\ Len(graph'.vertices) >= Len(graph.vertices)
    /\ Pairs(graph.edges) \subseteq Pairs(graph'.edges)

\* C29: across insertions, random insertions, manual draws, color actions and
\* relayouts the number of vertices never decreases and no edge, as an
\* unordered pair, is removed: the edge set of each state contains that of the
\* state before.
C29_NothingRemoved == [][GrowsOnly]_vars

\* C29: a relayout in the small window has just returned a graph with a
\* manually drawn vertex.
C29_RedrawnAfterManual ==
  /\ last = Last("redraw", TRUE)
  /\ Len(graph.vertices) = 4
  /\ Cardinality(LowerNeighbors(graph, 3)) >= 2
  /\ dimensions.width = 120

(***************************************************************************)
(* The cycle-closing step adds nothing                                     *)
(***************************************************************************)

\* The edges the insertion pushed after those of prev, in order.
PushedEdges(prev, g) == SubSeq(g.edges, Len(prev.edges) + 1, Len(g.edges))

\* C30: whenever an insertion passes the fully-connected gate of
\* addVertexToSegment, every cyclically consecutive pair of the segment is
\* joined already and the cycle-closing step adds no edge: the edges added
\* are the |segment| edges from the new vertex, in segment order, and after
\* them only edges of interior repair, each with an enclosed vertex at one end.
C30_CycleClosingAddsNothing ==
  \A result \in SegmentInserts :
    LET segment == result.attach
        newIdx == Len(graph.vertices)
        newPos == At(result.graph.vertices, newIdx).pos
        connected == ConnectNew(graph.edges, newIdx, segment)
        pushed == PushedEdges(graph, result.graph)
    IN  /\ addVertexToSegment(graph, segment, newPos).ok
        /\ \A i \in 1 .. Len(segment) :
             {segment[i], segment[(i % Len(segment)) + 1]} \in Pairs(graph.edges)
        /\ CloseCycle(connected, segment) = connected
        /\ Len(pushed) >= Len(segment)
        /\ \A i \in 1 .. Len(segment) : pushed[i] = <<newIdx, segment[i]>>
        /\ \A k \in (Len(segment) + 1) .. Len(pushed) :
             \E i \in 1 .. Len(segment) : \E v \in Indices(graph.vertices) :
               /\ Enclosed(graph, segment, i, newPos, v)
               /\ v \in {pushed[k][1], pushed[k][2]}

\* C30: an A command has just joined a new vertex to a segment of three
\* vertices, whose closing pair, last to first, was joined before.
C30_ThreeVertexSegmentInserted ==
  /\ last = Last("add", TRUE)
  /\ Len(graph.vertices) = 5
  /\ Cardinality(LowerNeighbors(graph, 4)) = 3
  /\ \A j, k \in LowerNeighbors(graph, 4) : j # k => {j, k} \in Pairs(graph.edges)

====
